---------------------------- MODULE Spec2Model ----------------------------
(***************************************************************************)
(* A model of mcp-simple-timeserver: the Time Source, the Location         *)
(* Resolver, the Calendar Formatter Registry and the Report Builder of     *)
(* src/mcp_simple_timeserver/core.py, and the web variant of               *)
(* src/mcp_simple_timeserver/web/server.py.                                *)
(*                                                                         *)
(* Representation of Python values.                                        *)
(*   str       a sequence of tokens.  A token is a TLA+ string: either one *)
(*             character (" ", ",", "+", "-", ":", a digit) or a word that *)
(*             the code never looks inside ("Warsaw", "unix").  The code's *)
(*             string operations (strip, split, lower, the offset regex,   *)
(*             the substring test) are computed on the tokens.             *)
(*   text with a sequence of lines, each line a str; "\n".join(parts) is   *)
(*   newlines  the concatenation of the parts' lines.                      *)
(*   None      for an Optional[str]: the empty sequence (every string the  *)
(*             code tests for None-ness is also tested by truthiness).     *)
(*   instant   seconds since the Unix epoch, an integer.                   *)
(***************************************************************************)
EXTENDS Integers, Sequences, FiniteSets, TLC

(***************************************************************************)
(* Bounds of the model.                                                    *)
(***************************************************************************)
\* Longest calendar argument, in tokens.
MaxCalLen == 3
\* Number of threads that race on the first use of the timezone index.
MaxThreads == 3

(***************************************************************************)
(* str helpers                                                             *)
(***************************************************************************)
\* str.strip() with no argument removes leading and trailing whitespace.
IsSpace(c) == c = " "

RECURSIVE lstrip(_)
lstrip(s) == IF s # <<>> /\ IsSpace(Head(s)) THEN lstrip(Tail(s)) ELSE s

RECURSIVE rstrip(_)
rstrip(s) == IF s # <<>> /\ IsSpace(s[Len(s)]) THEN rstrip(SubSeq(s, 1, Len(s) - 1)) ELSE s

strip(s) == rstrip(lstrip(s))

\* str.split(sep) for a one-token separator: always at least one part.
RECURSIVE splitFrom(_, _, _, _)
splitFrom(s, sep, i, cur) ==
    IF i > Len(s) THEN <<cur>>
    ELSE IF s[i] = sep THEN <<cur>> \o splitFrom(s, sep, i + 1, <<>>)
    ELSE splitFrom(s, sep, i + 1, Append(cur, s[i]))

split(s, sep) == splitFrom(s, sep, 1, <<>>)

\* str.lower() token by token: a word token in upper or mixed case maps to
\* its lower-case spelling, every other token is already lower case.
lowerToken(t) ==
    CASE t = "UNIX" -> "unix"
      [] t = "Hebrew" -> "hebrew"
      [] t = "Bogus" -> "bogus"
      [] t = "NOW" -> "now"
      [] OTHER -> t

lower(s) == [i \in 1..Len(s) |-> lowerToken(s[i])]

\* bool(s) of a str
truthy(s) == s # <<>>

DigitChars == <<"0", "1", "2", "3", "4", "5", "6", "7", "8", "9">>

\* \d of the offset pattern; int() of one digit
IsDigit(c) == \E i \in 1..10 : DigitChars[i] = c
DigitVal(c) == CHOOSE v \in 0..9 : DigitChars[v + 1] = c

\* f"{n:02d}" for 0 <= n: at least two digits
RECURSIVE decimal(_)
decimal(n) == IF n < 10 THEN <<DigitChars[n + 1]>> ELSE decimal(n \div 10) \o <<DigitChars[(n % 10) + 1]>>

fmt02d(n) == IF n < 10 THEN <<"0">> \o decimal(n) ELSE decimal(n)

abs(n) == IF n < 0 THEN -n ELSE n

(***************************************************************************)
(* Timezone objects: ZoneInfo (named zone) and datetime.timezone (fixed    *)
(* offset).  Both are truthy; None is the third variant.                   *)
(***************************************************************************)
TzNone == [kind |-> "none", key |-> "", offset |-> 0]
TzZoneInfo(k) == [kind |-> "zoneinfo", key |-> k, offset |-> 0]
TzFixed(secs) == [kind |-> "fixed", key |-> "", offset |-> secs]

\* The zone database ZoneInfo() reads: the keys the model knows.
ZoneInfoKeys == {"UTC", "Europe/Warsaw", "Asia/Tokyo", "Asia/Dubai"}

\* Keys ZoneInfo() rejects with ValueError before any lookup (absolute
\* paths, paths that leave the database directory).
MalformedKeys == {"/etc/localtime"}

\* ZoneInfo(key): the zone, ZoneInfoNotFoundError or ValueError.
ZoneInfoNew(key) ==
    IF Len(key) = 1 /\ key[1] \in ZoneInfoKeys THEN [exc |-> "", tz |-> TzZoneInfo(key[1])]
    ELSE IF Len(key) >= 1 /\ key[1] \in MalformedKeys THEN [exc |-> "ValueError", tz |-> TzNone]
    ELSE [exc |-> "ZoneInfoNotFoundError", tz |-> TzNone]

\* timezone(timedelta(seconds=n)): ValueError unless strictly within a day.
FixedTimezoneNew(secs) ==
    IF -86400 < secs /\ secs < 86400 THEN [exc |-> "", tz |-> TzFixed(secs)]
    ELSE [exc |-> "ValueError", tz |-> TzNone]

\* The offset pattern with the sign made optional, r'^([+-])?(\d{2}):?(\d{2})$'
offset_pattern_optional_sign(s) ==
    LET t == IF s # <<>> /\ s[1] \in {"+", "-"} THEN Tail(s) ELSE s
        sign == IF s # <<>> /\ s[1] = "-" THEN "-" ELSE "+"
    IN  IF Len(t) = 5 /\ IsDigit(t[1]) /\ IsDigit(t[2]) /\ t[3] = ":" /\ IsDigit(t[4]) /\ IsDigit(t[5])
        THEN [matched |-> TRUE, sign |-> sign, hh |-> <<t[1], t[2]>>, mm |-> <<t[4], t[5]>>]
        ELSE IF Len(t) = 4 /\ IsDigit(t[1]) /\ IsDigit(t[2]) /\ IsDigit(t[3]) /\ IsDigit(t[4])
        THEN [matched |-> TRUE, sign |-> sign, hh |-> <<t[1], t[2]>>, mm |-> <<t[3], t[4]>>]
        ELSE [matched |-> FALSE, sign |-> "", hh |-> <<>>, mm |-> <<>>]

\* re.match(r'^([+-])(\d{2}):?(\d{2})$', s): the groups, or no match.
offset_pattern(s) ==
    IF Len(s) = 6 /\ s[1] \in {"+", "-"} /\ IsDigit(s[2]) /\ IsDigit(s[3])
         /\ s[4] = ":" /\ IsDigit(s[5]) /\ IsDigit(s[6])
    THEN [matched |-> TRUE, sign |-> s[1], hh |-> <<s[2], s[3]>>, mm |-> <<s[5], s[6]>>]
    ELSE IF Len(s) = 5 /\ s[1] \in {"+", "-"} /\ IsDigit(s[2]) /\ IsDigit(s[3])
         /\ IsDigit(s[4]) /\ IsDigit(s[5])
    THEN [matched |-> TRUE, sign |-> s[1], hh |-> <<s[2], s[3]>>, mm |-> <<s[4], s[5]>>]
    ELSE [matched |-> FALSE, sign |-> "", hh |-> <<>>, mm |-> <<>>]

\* int() of a two-digit group
int2(g) == 10 * DigitVal(g[1]) + DigitVal(g[2])

\* parse_timezone_param: [exc, tz]; tz = TzNone is Python's None.
parse_timezone_param(tz_str) ==
    LET s == strip(tz_str)
        zi == ZoneInfoNew(s)
        m == offset_pattern(s)
        sign == IF m.sign = "+" THEN 1 ELSE -1
        offset_seconds == sign * (int2(m.hh) * 3600 + int2(m.mm) * 60)
    IN  IF ~truthy(s) THEN [exc |-> "", tz |-> TzNone]
        ELSE IF zi.exc = "" THEN zi
        ELSE IF zi.exc # "ZoneInfoNotFoundError" THEN zi
        ELSE IF m.matched THEN FixedTimezoneNew(offset_seconds)
        ELSE [exc |-> "", tz |-> TzNone]


(***************************************************************************)
(* Geocoding (Nominatim) and the coordinates-to-timezone lookup            *)
(***************************************************************************)
\* What the geocoding request can answer.  kind is
\*   "RequestException"  network error, timeout, HTTP error status
\*   "InvalidJSON"       response.json() raises ValueError
\*   "Empty"             an empty result list
\*   "MissingField"      the first match has no "lat" or "lon" (KeyError)
\*   "NonNumeric"        "lat" or "lon" is a non-numeric string (ValueError)
\*   "BadShape"          JSON of another shape, e.g. [{"lat": null, ...}] or
\*                       ["x"]: float(None) or "x"["lat"] raise TypeError
\*   "Match"             a first match with coordinates; named says whether
\*                       it has a "display_name", display is that name
GeoResponse(k, c, n, d) == [kind |-> k, coords |-> c, named |-> n, display |-> d]

GeoFailure(k) == GeoResponse(k, "", FALSE, <<>>)

\* The compression that keeps the first two parts instead of the first and
\* the last
compress_display_name_first_two(display_name) ==
    LET parts == split(display_name, ", ")
    IN  IF Len(parts) > 2 THEN parts[1] \o <<", ">> \o parts[2]
        ELSE display_name

\* display_name.split(", ") and the "first, last" compression
compress_display_name(display_name) ==
    LET parts == split(display_name, ", ")
    IN  IF Len(parts) > 2 THEN parts[1] \o <<", ">> \o parts[Len(parts)]
        ELSE display_name

\* geocode_location: [exc, found, coords, display_name]; found = FALSE is None.
geocode_location(query, resp) ==
    LET none == [exc |-> "", found |-> FALSE, coords |-> "", display_name |-> <<>>]
    IN  CASE resp.kind \in {"RequestException", "InvalidJSON", "MissingField", "NonNumeric"} -> none
          [] resp.kind = "Empty" -> none
          [] resp.kind = "BadShape" -> [none EXCEPT !.exc = "TypeError"]
          [] OTHER ->
               [exc |-> "", found |-> TRUE, coords |-> resp.coords,
                display_name |-> compress_display_name(
                                    IF resp.named THEN resp.display ELSE query)]

\* TimezoneFinder.timezone_at(lat, lng): a zone name, None, or an error.
timezone_at(coords) ==
    CASE coords = "52.23,21.01" -> [exc |-> "", name |-> <<"Europe/Warsaw">>]
      [] coords = "35.68,139.69" -> [exc |-> "", name |-> <<"Asia/Tokyo">>]
      [] coords = "25.20,55.27" -> [exc |-> "", name |-> <<"Asia/Dubai">>]
      [] coords = "0.0,-30.0" -> [exc |-> "", name |-> <<>>]
      [] coords = "nan,nan" -> [exc |-> "ValueError", name |-> <<>>]
      [] OTHER -> [exc |-> "", name |-> <<"Mars/Olympus_Mons">>]

\* The process-wide singleton: finder is 0 for None, else the instance's
\* number; built counts the TimezoneFinder() constructor runs.
TimezoneFinderNew(tf) == [finder |-> tf.built + 1, built |-> tf.built + 1]

\* The test of line 65 left out: a new index on every call
is_None_untested(finder) == TRUE

\* "_timezone_finder is None", the test of line 65
is_None(finder) == finder = 0

\* coords_to_timezone: the zone name, <<>> for None
coords_to_timezone(coords) ==
    LET r == timezone_at(coords)
    IN  IF r.exc # "" THEN <<>> ELSE r.name

(***************************************************************************)
(* Location Resolver                                                       *)
(***************************************************************************)
\* The value of resolve_location: exc is the exception that escapes ("" when
\* the call returns), (tz, name, warning) the returned tuple, queries the
\* strings sent to the geocoder, tf_calls the calls of _get_timezone_finder.
Resolved(e, t, n, w, q, c) ==
    [exc |-> e, tz |-> t, name |-> n, warning |-> w, queries |-> q, tf_calls |-> c]

tz_warning(tz) ==
    <<"Could not parse timezone \"">> \o tz
      \o <<"\". Use IANA format (e.g., \"Europe/Warsaw\") or UTC offset (e.g., \"+02:00\").">>

city_warning(city) ==
    <<"Could not resolve location \"">> \o city
      \o <<"\". Try a major city name, provide country name, or use timezone parameter (e.g., \"Europe/Warsaw\").">>

country_warning(country) ==
    <<"Could not resolve country \"">> \o country
      \o <<"\". Try a city name or use timezone parameter (e.g., \"Europe/Warsaw\").">>

\* Priority 1 of resolve_location: the direct timezone parameter
resolve_by_tz(tz) ==
    LET p == parse_timezone_param(tz)
    IN  IF p.exc # "" THEN Resolved(p.exc, TzNone, <<>>, <<>>, <<>>, 0)
        ELSE IF p.tz.kind = "zoneinfo" THEN Resolved("", p.tz, <<p.tz.key>>, <<>>, <<>>, 0)
        ELSE IF p.tz.kind = "fixed" THEN Resolved("", p.tz, strip(tz), <<>>, <<>>, 0)
        ELSE Resolved("", TzNone, <<>>, tz_warning(tz), <<>>, 0)

\* resolve_by_geocode that returns no warning when the coordinates have no
\* timezone (the "if tz_name:" branch falling through to a bare failure)
resolve_by_geocode_silent_lookup(query, warning, resp) ==
    LET g == geocode_location(query, resp)
        tz_name == coords_to_timezone(g.coords)
        z == ZoneInfoNew(tz_name)
    IN  IF g.exc # "" THEN Resolved(g.exc, TzNone, <<>>, <<>>, <<query>>, 0)
        ELSE IF ~g.found THEN Resolved("", TzNone, <<>>, warning, <<query>>, 0)
        ELSE IF ~truthy(tz_name) THEN Resolved("", TzNone, <<>>, <<>>, <<query>>, 1)
        ELSE IF z.exc = "" THEN Resolved("", z.tz, g.display_name, <<>>, <<query>>, 1)
        ELSE IF z.exc = "ZoneInfoNotFoundError" THEN Resolved("", TzNone, <<>>, warning, <<query>>, 1)
        ELSE Resolved(z.exc, TzNone, <<>>, <<>>, <<query>>, 1)

\* resolve_by_geocode that fetches the timezone index before it sends the
\* geocoding request
resolve_by_geocode_index_first(query, warning, resp) ==
    LET g == geocode_location(query, resp)
        tz_name == coords_to_timezone(g.coords)
        z == ZoneInfoNew(tz_name)
        failed(c) == Resolved("", TzNone, <<>>, warning, <<query>>, c)
    IN  IF g.exc # "" THEN Resolved(g.exc, TzNone, <<>>, <<>>, <<query>>, 1)
        ELSE IF ~g.found THEN failed(1)
        ELSE IF ~truthy(tz_name) THEN failed(1)
        ELSE IF z.exc = "" THEN Resolved("", z.tz, g.display_name, <<>>, <<query>>, 1)
        ELSE IF z.exc = "ZoneInfoNotFoundError" THEN failed(1)
        ELSE Resolved(z.exc, TzNone, <<>>, <<>>, <<query>>, 1)

\* Priorities 2 and 3: geocode the trimmed string, look the zone up, build it
resolve_by_geocode(query, warning, resp) ==
    LET g == geocode_location(query, resp)
        tz_name == coords_to_timezone(g.coords)
        z == ZoneInfoNew(tz_name)
        failed(c) == Resolved("", TzNone, <<>>, warning, <<query>>, c)
    IN  IF g.exc # "" THEN Resolved(g.exc, TzNone, <<>>, <<>>, <<query>>, 0)
        ELSE IF ~g.found THEN failed(0)
        ELSE IF ~truthy(tz_name) THEN failed(1)
        ELSE IF z.exc = "" THEN Resolved("", z.tz, g.display_name, <<>>, <<query>>, 1)
        ELSE IF z.exc = "ZoneInfoNotFoundError" THEN failed(1)
        ELSE Resolved(z.exc, TzNone, <<>>, <<>>, <<query>>, 1)

\* resolve_location that goes on to the country when the city was not found
resolve_location_fall_through(tz, country, city, resp) ==
    LET by_city == resolve_by_geocode(strip(city), city_warning(city), resp)
        by_country == resolve_by_geocode(strip(country), country_warning(country), resp)
    IN  IF truthy(strip(tz)) THEN resolve_by_tz(tz)
        ELSE IF truthy(strip(city)) /\ (by_city.tz # TzNone \/ ~truthy(strip(country))) THEN by_city
        ELSE IF truthy(strip(city))
        THEN [by_country EXCEPT !.queries = by_city.queries \o by_country.queries]
        ELSE IF truthy(strip(country)) THEN by_country
        ELSE Resolved("", TzNone, <<>>, <<>>, <<>>, 0)

\* resolve_location with the city consulted before tz
resolve_location_city_first(tz, country, city, resp) ==
    IF truthy(strip(city)) THEN resolve_by_geocode(strip(city), city_warning(city), resp)
    ELSE IF truthy(strip(tz)) THEN resolve_by_tz(tz)
    ELSE IF truthy(strip(country)) THEN resolve_by_geocode(strip(country), country_warning(country), resp)
    ELSE Resolved("", TzNone, <<>>, <<>>, <<>>, 0)

\* resolve_location(tz, country, city), with the geocoder's answer resp
resolve_location(tz, country, city, resp) ==
    IF truthy(strip(tz)) THEN resolve_by_tz(tz)
    ELSE IF truthy(strip(city)) THEN resolve_by_geocode(strip(city), city_warning(city), resp)
    ELSE IF truthy(strip(country)) THEN resolve_by_geocode(strip(country), country_warning(country), resp)
    ELSE Resolved("", TzNone, <<>>, <<>>, <<>>, 0)

(***************************************************************************)
(* Time Source and datetime formatting                                     *)
(*                                                                         *)
(* An aware datetime is [ts, tz]: the instant and the zone it is shown in. *)
(* The model's instants lie in July 2025, so that a date is "2025-07-dd".  *)
(***************************************************************************)
\* datetime.UTC
TzUTC == TzFixed(0)

DateTime(ts, tz) == [ts |-> ts, tz |-> tz]

\* What the NTP request can answer: kind "ok" with the transmit timestamp,
\* or "NTPException" / "OSError" (protocol error, timeout, network error).
NtpResponse(k, tx) == [kind |-> k, tx_time |-> tx]

\* get_ntp_datetime(server): (datetime, is_ntp), with the NTP answer and the
\* local clock it falls back to
\* get_ntp_datetime whose fallback reports the local clock as NTP time
get_ntp_datetime_flag_kept(resp, clock) ==
    IF resp.kind = "ok"
    THEN [utc_time |-> DateTime(resp.tx_time, TzUTC), is_ntp |-> TRUE, requests |-> 1]
    ELSE [utc_time |-> DateTime(clock, TzUTC), is_ntp |-> TRUE, requests |-> 1]

\* get_ntp_datetime that asks the server a second time when the first
\* request failed
get_ntp_datetime_retry(resp, clock) ==
    IF resp.kind = "ok"
    THEN [utc_time |-> DateTime(resp.tx_time, TzUTC), is_ntp |-> TRUE, requests |-> 1]
    ELSE [utc_time |-> DateTime(clock, TzUTC), is_ntp |-> FALSE, requests |-> 2]

\* requests: the calls of ntp_client.request the function made.
get_ntp_datetime(resp, clock) ==
    IF resp.kind = "ok"
    THEN [utc_time |-> DateTime(resp.tx_time, TzUTC), is_ntp |-> TRUE, requests |-> 1]
    ELSE [utc_time |-> DateTime(clock, TzUTC), is_ntp |-> FALSE, requests |-> 1]

\* _get_ntp_datetime(server) of the web server
_get_ntp_datetime(resp, clock) ==
    IF resp.kind = "ok"
    THEN [utc_time |-> DateTime(resp.tx_time, TzUTC), is_ntp |-> TRUE, requests |-> 1]
    ELSE [utc_time |-> DateTime(clock, TzUTC), is_ntp |-> FALSE, requests |-> 1]

\* The rules of the zone database in July 2025: offset and DST in seconds,
\* and the abbreviation %Z prints.
ZoneRule(key) ==
    CASE key = "Europe/Warsaw" -> [offset |-> 7200, dst |-> 3600, abbrev |-> <<"CEST">>]
      [] key = "Asia/Tokyo" -> [offset |-> 32400, dst |-> 0, abbrev |-> <<"JST">>]
      [] key = "Asia/Dubai" -> [offset |-> 14400, dst |-> 0, abbrev |-> <<"+", "0", "4">>]
      [] OTHER -> [offset |-> 0, dst |-> 0, abbrev |-> <<"UTC">>]

\* dt.utcoffset(), in seconds
utcoffset(dt) == IF dt.tz.kind = "zoneinfo" THEN ZoneRule(dt.tz.key).offset ELSE dt.tz.offset

\* utc_time.astimezone(tz_obj): the same instant in another zone
astimezone(dt, tz) == DateTime(dt.ts, tz)

\* 2025-07-01T00:00:00Z, a Tuesday
JulyFirst == 20270 * 86400

\* Seconds of local wall-clock time since 2025-07-01T00:00:00
wall(dt) == dt.ts + utcoffset(dt) - JulyFirst

\* strftime("%Y-%m-%d"), for a local date in July 2025
strftime_date(dt) == <<"2025-07-">> \o fmt02d((wall(dt) \div 86400) + 1)

\* strftime("%H:%M")
strftime_HM(dt) ==
    fmt02d((wall(dt) % 86400) \div 3600) \o <<":">> \o fmt02d((wall(dt) % 3600) \div 60)

\* strftime("%Y-%m-%d %H:%M:%S")
strftime_datetime(dt) ==
    strftime_date(dt) \o <<" ">> \o strftime_HM(dt) \o <<":">> \o fmt02d(wall(dt) % 60)

\* date.weekday(): Monday is 0
weekday(dt) == ((wall(dt) \div 86400) + 1) % 7

\* strftime("%A")
strftime_A(dt) ==
    <<<<"Monday", "Tuesday", "Wednesday", "Thursday", "Friday", "Saturday", "Sunday">>[weekday(dt) + 1]>>

\* dt.tzname(), what strftime("%Z") prints
tzname(dt) ==
    IF dt.tz.kind = "zoneinfo" THEN ZoneRule(dt.tz.key).abbrev
    ELSE IF dt.tz.offset = 0 THEN <<"UTC">>
    ELSE <<"UTC", IF dt.tz.offset < 0 THEN "-" ELSE "+">>
           \o fmt02d(abs(dt.tz.offset) \div 3600) \o <<":">>
           \o fmt02d((abs(dt.tz.offset) % 3600) \div 60)

\* _format_utc_offset with the minutes taken from the seconds' remainder
_format_utc_offset_minutes_mod(dt) ==
    LET total_seconds == utcoffset(dt)
        sign == IF total_seconds >= 0 THEN "+" ELSE "-"
        hours == abs(total_seconds) \div 3600
        minutes == abs(total_seconds) % 60
    IN  <<sign>> \o fmt02d(hours) \o <<":">> \o fmt02d(minutes)

\* _format_utc_offset with "+" for offsets above zero only
_format_utc_offset_plus_above_zero(dt) ==
    LET total_seconds == utcoffset(dt)
        sign == IF total_seconds > 0 THEN "+" ELSE "-"
        hours == abs(total_seconds) \div 3600
        minutes == (abs(total_seconds) % 3600) \div 60
    IN  <<sign>> \o fmt02d(hours) \o <<":">> \o fmt02d(minutes)

\* _format_utc_offset
_format_utc_offset(dt) ==
    LET total_seconds == utcoffset(dt)
        sign == IF total_seconds >= 0 THEN "+" ELSE "-"
        hours == abs(total_seconds) \div 3600
        minutes == (abs(total_seconds) % 3600) \div 60
    IN  <<sign>> \o fmt02d(hours) \o <<":">> \o fmt02d(minutes)

\* abbrev.lstrip("+-")
RECURSIVE lstrip_signs(_)
lstrip_signs(s) == IF s # <<>> /\ Head(s) \in {"+", "-"} THEN lstrip_signs(Tail(s)) ELSE s

\* str.isdigit(): non-empty and digits only
isdigit(s) == s # <<>> /\ \A i \in 1..Len(s) : IsDigit(s[i])

\* _get_timezone_abbrev
_get_timezone_abbrev(dt) ==
    LET abbrev == tzname(dt)
    IN  IF truthy(abbrev) /\ ~isdigit(lstrip_signs(abbrev)) THEN abbrev ELSE <<>>

\* _is_dst_active, for a named zone (dst() is never None there)
_is_dst_active(dt) == ZoneRule(dt.tz.key).dst > 0

(***************************************************************************)
(* Calendar Formatter Registry.  A section is a sequence of lines.  The    *)
(* conversion libraries are functions of the local date; the model keeps   *)
(* the date they were given inside the converted value.                    *)
(***************************************************************************)
format_unix(dt) == <<<<"--- Unix Timestamp ---">>, decimal(dt.ts)>>

\* strftime("%G-W%V-%u"): 2025-07-01 is day 2 of ISO week 27
format_isodate(dt) ==
    <<<<"--- ISO Week Date ---">>,
      <<"2025-W">> \o fmt02d(27 + (((wall(dt) \div 86400) + 1) \div 7))
         \o <<"-">> \o decimal(weekday(dt) + 1)>>

calendar_hijri(dt) ==
    <<<<"--- Hijri Calendar ---">>,
      <<"Date: ", "hijri:">> \o strftime_date(dt) \o <<" ", "AH">>,
      <<"Month: ", "hijri-month:">> \o strftime_date(dt),
      <<"Day: ", "hijri-day:">> \o strftime_A(dt)>>

calendar_japanese(dt) ==
    <<<<"--- Japanese Calendar ---">>,
      <<"English: ", "Reiwa 7, ">> \o strftime_date(dt) \o <<", ">> \o strftime_HM(dt),
      <<"Kanji: ", "kanji:">> \o strftime_date(dt) \o <<" ">> \o fmt02d((wall(dt) % 86400) \div 3600),
      <<"Era: ", "Reiwa", " (", "kanji:Reiwa", ")">>>>

calendar_persian(dt) ==
    <<<<"--- Persian Calendar ---">>,
      <<"English: ", "jalali-en:">> \o strftime_date(dt),
      <<"Farsi: ", "jalali-fa:">> \o strftime_date(dt)>>

\* 2025-07-13 is the fast of 17 Tammuz, the one holiday of July 2025
calendar_hebrew(dt) ==
    <<<<"--- Hebrew Calendar ---">>,
      <<"English: ", "hebrew-en:">> \o strftime_date(dt),
      <<"Hebrew: ", "hebrew-he:">> \o strftime_date(dt)>>
      \o (IF wall(dt) \div 86400 = 12
          THEN <<<<"Holiday: ", "17 of Tamuz", " (", "hebrew-he:17 of Tamuz", ")">>>>
          ELSE <<>>)

\* The keys of CALENDAR_FORMATTERS
CALENDAR_FORMATTERS == {"unix", "isodate", "hijri", "japanese", "persian", "hebrew"}

\* cal_name in CALENDAR_FORMATTERS, for a str made of tokens
is_known_calendar(cal_name) == Len(cal_name) = 1 /\ cal_name[1] \in CALENDAR_FORMATTERS

\* CALENDAR_FORMATTERS[cal_name](display_time)
format_calendar(cal_name, dt) ==
    CASE cal_name[1] = "unix" -> format_unix(dt)
      [] cal_name[1] = "isodate" -> format_isodate(dt)
      [] cal_name[1] = "hijri" -> calendar_hijri(dt)
      [] cal_name[1] = "japanese" -> calendar_japanese(dt)
      [] cal_name[1] = "persian" -> calendar_persian(dt)
      [] OTHER -> calendar_hebrew(dt)

(***************************************************************************)
(* Report Builder                                                          *)
(***************************************************************************)
EmptyLine == <<>>

NtpFallbackNotice == <<"(Note: NTP unavailable, using local server time)">>

RetryTip ==
    <<"Tip: Try a major city name, provide country name, or use timezone parameter (e.g., \"Europe/Warsaw\").">>

\* requested without the lower(): names are matched as written
requested_calendars_as_written(calendar) ==
    LET parts == split(calendar, ",")
    IN  [i \in 1..Len(parts) |-> strip(parts[i])]

\* requested = [c.strip().lower() for c in calendar.split(",")]
requested_calendars(calendar) ==
    LET parts == split(calendar, ",")
    IN  [i \in 1..Len(parts) |-> lower(strip(parts[i]))]

unknown_calendar_warning(cal_name) ==
    <<"(Note: Unknown calendar format ignored: ">> \o cal_name \o <<")">>

\* The loop over requested: the sections appended to calendar_sections
RECURSIVE calendar_sections_of(_, _)
calendar_sections_of(requested, dt) ==
    IF Len(requested) = 0 THEN <<>>
    ELSE IF truthy(Head(requested)) /\ is_known_calendar(Head(requested))
    THEN <<format_calendar(Head(requested), dt)>> \o calendar_sections_of(Tail(requested), dt)
    ELSE calendar_sections_of(Tail(requested), dt)

\* The loop over requested: the lines appended to warnings
RECURSIVE calendar_warnings_of(_)
calendar_warnings_of(requested) ==
    IF Len(requested) = 0 THEN <<>>
    ELSE IF truthy(Head(requested)) /\ ~is_known_calendar(Head(requested))
    THEN <<unknown_calendar_warning(Head(requested))>> \o calendar_warnings_of(Tail(requested))
    ELSE calendar_warnings_of(Tail(requested))

\* "\n\n".join(calendar_sections), as lines
RECURSIVE join_sections(_)
join_sections(sections) ==
    IF Len(sections) = 0 THEN <<EmptyLine>>
    ELSE IF Len(sections) = 1 THEN sections[1]
    ELSE sections[1] \o <<EmptyLine>> \o join_sections(Tail(sections))

\* "Unknown calendar" in w.  The tokens that hold this text: the literal of
\* the unknown-calendar warning, and the input word that spells it.
contains_unknown_calendar(w) ==
    \E i \in 1..Len(w) : w[i] \in {"(Note: Unknown calendar format ignored: ", "Unknown calendar"}

\* [w for w in warnings if "Unknown calendar" in w]
RECURSIVE filter_calendar_warnings(_)
filter_calendar_warnings(warnings) ==
    IF Len(warnings) = 0 THEN <<>>
    ELSE IF contains_unknown_calendar(Head(warnings))
    THEN <<Head(warnings)>> \o filter_calendar_warnings(Tail(warnings))
    ELSE filter_calendar_warnings(Tail(warnings))

\* location_header with the DST line for every timezone, fixed offsets included
location_header_dst_always(display_time, tz_obj, location_name) ==
    LET tz_abbrev == _get_timezone_abbrev(display_time)
        zone == tz_obj.kind = "zoneinfo"
        timezone_line ==
            IF truthy(tz_abbrev)
            THEN IF zone THEN <<"Timezone: ", tz_obj.key, " (">> \o tz_abbrev \o <<")">>
                 ELSE <<"Timezone: ">> \o tz_abbrev
            ELSE IF zone THEN <<"Timezone: ", tz_obj.key>>
                 ELSE <<"Timezone: ">> \o location_name
    IN  << <<"Local Time: ">> \o strftime_datetime(display_time),
           <<"Day: ">> \o strftime_A(display_time),
           <<"Location: ">> \o location_name,
           timezone_line,
           <<"UTC Offset: ">> \o _format_utc_offset(display_time),
           <<"DST Active: ", IF _is_dst_active(display_time) THEN "Yes" ELSE "No">> >>

\* The header of a resolved location (lines 461-489)
location_header(display_time, tz_obj, location_name) ==
    LET tz_abbrev == _get_timezone_abbrev(display_time)
        zone == tz_obj.kind = "zoneinfo"
        timezone_line ==
            IF truthy(tz_abbrev)
            THEN IF zone THEN <<"Timezone: ", tz_obj.key, " (">> \o tz_abbrev \o <<")">>
                 ELSE <<"Timezone: ">> \o tz_abbrev
            ELSE IF zone THEN <<"Timezone: ", tz_obj.key>>
                 ELSE <<"Timezone: ">> \o location_name
    IN  << <<"Local Time: ">> \o strftime_datetime(display_time),
           <<"Day: ">> \o strftime_A(display_time),
           <<"Location: ">> \o location_name,
           timezone_line,
           <<"UTC Offset: ">> \o _format_utc_offset(display_time) >>
        \o (IF zone
            THEN << <<"DST Active: ", IF _is_dst_active(display_time) THEN "Yes" ELSE "No">> >>
            ELSE <<>>)

\* has_location = bool(tz.strip() or country.strip() or city.strip())
has_location_of(tz, country, city) ==
    truthy(strip(tz)) \/ truthy(strip(country)) \/ truthy(strip(city))

\* bool(tz_obj) of the resolver's result
resolved(r) == r.tz.kind # "none"

\* display_time: local time when a zone was resolved, else UTC (439-445)
display_time_of(utc_time, r) == IF resolved(r) THEN astimezone(utc_time, r.tz) ELSE utc_time

\* The header lines appended to result_lines (458-503)
header_lines(has_location, r, utc_time, display_time) ==
    IF has_location /\ resolved(r)
    THEN location_header(display_time, r.tz, r.name)
    ELSE << <<"UTC Time: ">> \o strftime_datetime(utc_time),
            <<"Day: ">> \o strftime_A(display_time) >>

\* location_warnings without the retry tip
location_warnings_no_tip(has_location, r) ==
    IF has_location /\ ~resolved(r) /\ truthy(r.warning)
    THEN << <<"Note: ">> \o r.warning >>
    ELSE <<>>

\* The lines the failed-location branch appends to warnings (491-497)
location_warnings(has_location, r) ==
    IF has_location /\ ~resolved(r) /\ truthy(r.warning)
    THEN << <<"Note: ">> \o r.warning, RetryTip >>
    ELSE <<>>

\* The Gregorian date line (509)
gregorian_line(display_time) == <<"Date: ">> \o strftime_date(display_time) \o <<" (Gregorian)">>

\* build_result with the NTP notice appended before the UTC reference
build_result_notice_first(warnings, result_lines, calendar_sections, top, with_utc, utc_time, is_ntp) ==
    (IF truthy(warnings) /\ top THEN warnings \o <<EmptyLine>> ELSE <<>>)
    \o result_lines
    \o (IF truthy(calendar_sections) THEN <<EmptyLine>> \o join_sections(calendar_sections) ELSE <<>>)
    \o (IF truthy(filter_calendar_warnings(warnings))
        THEN <<EmptyLine>> \o filter_calendar_warnings(warnings) ELSE <<>>)
    \o (IF ~is_ntp THEN <<NtpFallbackNotice>> ELSE <<>>)
    \o (IF with_utc THEN <<EmptyLine, <<"UTC Time: ">> \o strftime_datetime(utc_time)>> ELSE <<>>)

\* build_result with the UTC reference appended whether or not a location
\* was resolved
build_result_utc_always(warnings, result_lines, calendar_sections, top, with_utc, utc_time, is_ntp) ==
    (IF truthy(warnings) /\ top THEN warnings \o <<EmptyLine>> ELSE <<>>)
    \o result_lines
    \o (IF truthy(calendar_sections) THEN <<EmptyLine>> \o join_sections(calendar_sections) ELSE <<>>)
    \o (IF truthy(filter_calendar_warnings(warnings))
        THEN <<EmptyLine>> \o filter_calendar_warnings(warnings) ELSE <<>>)
    \o <<EmptyLine, <<"UTC Time: ">> \o strftime_datetime(utc_time)>>
    \o (IF ~is_ntp THEN <<NtpFallbackNotice>> ELSE <<>>)

\* "Build final result" (520-547): the parts, joined by "\n"
build_result(warnings, result_lines, calendar_sections, top, with_utc, utc_time, is_ntp) ==
    (IF truthy(warnings) /\ top THEN warnings \o <<EmptyLine>> ELSE <<>>)
    \o result_lines
    \o (IF truthy(calendar_sections) THEN <<EmptyLine>> \o join_sections(calendar_sections) ELSE <<>>)
    \o (IF truthy(filter_calendar_warnings(warnings))
        THEN <<EmptyLine>> \o filter_calendar_warnings(warnings) ELSE <<>>)
    \o (IF with_utc THEN <<EmptyLine, <<"UTC Time: ">> \o strftime_datetime(utc_time)>> ELSE <<>>)
    \o (IF ~is_ntp THEN <<NtpFallbackNotice>> ELSE <<>>)

\* report_text with the UTC reference for every requested location, resolved
\* or not
report_text_utc_if_requested(with_calendars, requested, has_location, t, r, display_time) ==
    build_result(
        location_warnings(has_location, r)
          \o (IF with_calendars THEN calendar_warnings_of(requested) ELSE <<>>),
        header_lines(has_location, r, t.utc_time, display_time)
          \o (IF with_calendars THEN <<gregorian_line(display_time)>> ELSE <<>>),
        IF with_calendars THEN calendar_sections_of(requested, display_time) ELSE <<>>,
        has_location /\ ~resolved(r),
        has_location,
        t.utc_time,
        t.is_ntp)

\* report_text with the calendar sections computed from the UTC reading
report_text_utc_sections(with_calendars, requested, has_location, t, r, display_time) ==
    build_result(
        location_warnings(has_location, r)
          \o (IF with_calendars THEN calendar_warnings_of(requested) ELSE <<>>),
        header_lines(has_location, r, t.utc_time, display_time)
          \o (IF with_calendars THEN <<gregorian_line(display_time)>> ELSE <<>>),
        IF with_calendars THEN calendar_sections_of(requested, t.utc_time) ELSE <<>>,
        has_location /\ ~resolved(r),
        has_location /\ resolved(r),
        t.utc_time,
        t.is_ntp)

\* The text of current_time_result once the time and the location are known
\* (437-547); requested is the list of calendar names, with_calendars is
\* bool(calendar.strip())
report_text(with_calendars, requested, has_location, t, r, display_time) ==
    build_result(
        location_warnings(has_location, r)
          \o (IF with_calendars THEN calendar_warnings_of(requested) ELSE <<>>),
        header_lines(has_location, r, t.utc_time, display_time)
          \o (IF with_calendars THEN <<gregorian_line(display_time)>> ELSE <<>>),
        IF with_calendars THEN calendar_sections_of(requested, display_time) ELSE <<>>,
        has_location /\ ~resolved(r),
        has_location /\ resolved(r),
        t.utc_time,
        t.is_ntp)

\* The report that tests the calendar argument as written: "if calendar:"
report_calendar_untrimmed(calendar, has_location, t, r) ==
    [exc |-> r.exc,
     text |-> IF r.exc # "" THEN <<>>
              ELSE report_text(truthy(calendar), requested_calendars(calendar),
                               has_location, t, r, display_time_of(t.utc_time, r)),
     time |-> t,
     loc |-> r]

\* current_time_result after its two collaborator calls: t is the Time
\* Source's result (430), r what resolve_location did (433)
report(calendar, has_location, t, r) ==
    [exc |-> r.exc,
     text |-> IF r.exc # "" THEN <<>>
              ELSE report_text(truthy(strip(calendar)), requested_calendars(calendar),
                               has_location, t, r, display_time_of(t.utc_time, r)),
     time |-> t,
     loc |-> r]

\* current_time_result(calendar, tz, country, city), given the NTP answer ntp,
\* the local clock and the geocoder's answer resp: the exception that escapes
\* ("" when the call returns), the text returned, the Time Source's result
\* and what resolve_location did.
current_time_result(calendar, tz, country, city, ntp, clock, resp) ==
    report(calendar, has_location_of(tz, country, city), get_ntp_datetime(ntp, clock),
           resolve_location(tz, country, city, resp))

\* utc_time_result(server): the text and the Time Source's result
utc_time_result(server, ntp, clock) ==
    LET t == get_ntp_datetime(ntp, clock)
    IN  [text |-> << <<"Current UTC Time from ">> \o server \o <<": ">>
                        \o strftime_datetime(t.utc_time),
                     <<"Day: ">> \o strftime_A(t.utc_time) >>
                  \o (IF t.is_ntp THEN <<>> ELSE <<NtpFallbackNotice>>),
         time |-> t]

\* The web variant's get_utc(server)
web_get_utc(server, ntp, clock) ==
    LET t == _get_ntp_datetime(ntp, clock)
    IN  [text |-> << <<"Current UTC Time from ">> \o server \o <<": ">>
                        \o strftime_datetime(t.utc_time),
                     <<"Day: ">> \o strftime_A(t.utc_time) >>
                  \o (IF t.is_ntp THEN <<>> ELSE <<NtpFallbackNotice>>),
         time |-> t]

\* The web variant with its warnings on the line after the sections, no
\* blank line between
web_get_current_time_warnings_joined(calendar, ntp, clock) ==
    LET t == _get_ntp_datetime(ntp, clock)
        ntp_time == t.utc_time
        with_calendars == truthy(strip(calendar))
        requested == requested_calendars(calendar)
        result_lines ==
            << <<"UTC Time: ">> \o strftime_datetime(ntp_time),
               <<"Day: ">> \o strftime_A(ntp_time) >>
            \o (IF with_calendars
                THEN << <<"Date: ">> \o strftime_date(ntp_time) \o <<" (Gregorian)">> >>
                ELSE <<>>)
        calendar_sections == IF with_calendars THEN calendar_sections_of(requested, ntp_time) ELSE <<>>
        warnings == IF with_calendars THEN calendar_warnings_of(requested) ELSE <<>>
    IN  [text |-> result_lines
                  \o (IF truthy(calendar_sections)
                      THEN <<EmptyLine>> \o join_sections(calendar_sections) ELSE <<>>)
                  \o warnings
                  \o (IF ~t.is_ntp THEN <<NtpFallbackNotice>> ELSE <<>>),
         time |-> t]

\* The web variant's get_current_time(calendar): the text and the Time Source's result
web_get_current_time(calendar, ntp, clock) ==
    LET t == _get_ntp_datetime(ntp, clock)
        ntp_time == t.utc_time
        with_calendars == truthy(strip(calendar))
        requested == requested_calendars(calendar)
        result_lines ==
            << <<"UTC Time: ">> \o strftime_datetime(ntp_time),
               <<"Day: ">> \o strftime_A(ntp_time) >>
            \o (IF with_calendars
                THEN << <<"Date: ">> \o strftime_date(ntp_time) \o <<" (Gregorian)">> >>
                ELSE <<>>)
        calendar_sections == IF with_calendars THEN calendar_sections_of(requested, ntp_time) ELSE <<>>
        warnings == IF with_calendars THEN calendar_warnings_of(requested) ELSE <<>>
    IN  [text |-> result_lines
                  \o (IF truthy(calendar_sections)
                      THEN <<EmptyLine>> \o join_sections(calendar_sections) ELSE <<>>)
                  \o (IF truthy(warnings) THEN <<EmptyLine>> \o warnings ELSE <<>>)
                  \o (IF ~t.is_ntp THEN <<NtpFallbackNotice>> ELSE <<>>),
         time |-> t]

(***************************************************************************)
(* State                                                                   *)
(*                                                                         *)
(* Thread 0 of the process serves tool calls one after the other (pc       *)
(* "idle" -> ... -> "done" -> "idle"); the variables call, time, loc and   *)
(* result describe the call it is serving, each set when the code has the  *)
(* value.  A call of get_current_time waits for the NTP server (pc         *)
(* "ntp_wait") and, when it geocodes, for the geocoder ("geo_send",        *)
(* "geo_wait"); a call that reaches coords_to_timezone stays at pc "index" *)
(* while thread 0 runs _get_timezone_finder statement by statement, and    *)
(* goes on from pc "lookup".                                               *)
(* _timezone_finder is the module's global: 0 for None, else the number of *)
(* the TimezoneFinder instance it holds; constructed counts the runs of    *)
(* the TimezoneFinder() constructor.  threads[t] is where thread t is in   *)
(* _get_timezone_finder and the instance it holds; threads 1..MaxThreads   *)
(* serve other calls the host dispatched, which have found coordinates and *)
(* are about to look the zone up.                                          *)
(***************************************************************************)
VARIABLES pc, call, time, loc, result, _timezone_finder, constructed, threads

vars == <<pc, call, time, loc, result, _timezone_finder, constructed, threads>>

Threads == 0..MaxThreads

\* The arguments of a call and what its collaborators answer (ntp, clock,
\* resp); for a direct call of a helper also the offset it was given.
NoCall == [tool |-> "", calendar |-> <<>>, tz |-> <<>>, country |-> <<>>, city |-> <<>>,
           server |-> <<>>, ntp |-> NtpResponse("", 0), clock |-> 0, resp |-> GeoFailure(""),
           offset |-> 0, from_date |-> <<>>, to_date |-> <<>>, unit |-> <<>>]
NoTime == [utc_time |-> DateTime(0, TzUTC), is_ntp |-> TRUE, queries |-> 0]
NoLoc == Resolved("", TzNone, <<>>, <<>>, <<>>, 0)
NoResult == [exc |-> "", text |-> <<>>]

Init ==
    /\ pc = "idle"
    /\ call = NoCall
    /\ time = NoTime
    /\ loc = NoLoc
    /\ result = NoResult
    /\ _timezone_finder = 0
    /\ constructed = 0
    /\ threads = [t \in Threads |-> [pc |-> IF t = 0 THEN "idle" ELSE "start", tf |-> 0]]

\* The singleton as the pair the lazy initializer works on
Singleton == [finder |-> _timezone_finder, built |-> constructed]

Served(t) == [utc_time |-> t.utc_time, is_ntp |-> t.is_ntp, queries |-> t.requests]

(***************************************************************************)
(* Tool calls                                                              *)
(***************************************************************************)
NOMINATIM_TIMEOUT == 5

\* requests.get called with no timeout: the request waits for ever
requests_get_no_timeout == <<>>

\* The timeout argument of requests.get; <<>> is None
requests_get_timeout == <<NOMINATIM_TIMEOUT>>

\* resolve_location sends a geocoding request: no tz, and a city or country
needs_geocode(tz, country, city) ==
    ~truthy(strip(tz)) /\ (truthy(strip(city)) \/ truthy(strip(country)))

\* get_current_time of the local server is called and sends its NTP request;
\* the NTP server will answer with ntp or, for kind "silent", not at all
GetCurrentTime(calendar, tz, country, city, ntp) ==
    /\ pc = "idle"
    /\ call' = [NoCall EXCEPT !.tool = "get_current_time", !.calendar = calendar, !.tz = tz,
                              !.country = country, !.city = city, !.ntp = ntp]
    /\ pc' = "ntp_wait"
    /\ UNCHANGED <<time, loc, result, _timezone_finder, constructed, threads>>

\* get_utc of the local server is called and sends its NTP request
GetUtc(server, ntp) ==
    /\ pc = "idle"
    /\ call' = [NoCall EXCEPT !.tool = "get_utc", !.server = server, !.ntp = ntp]
    /\ pc' = "ntp_wait"
    /\ UNCHANGED <<time, loc, result, _timezone_finder, constructed, threads>>

\* get_current_time of the web server: one request, to the NTP server, and
\* the call's values all come after it
WebGetCurrentTime(calendar, ntp, clock) ==
    /\ pc = "idle"
    /\ \E res \in {web_get_current_time(calendar, ntp, clock)} :
           /\ call' = [NoCall EXCEPT !.tool = "web_get_current_time", !.calendar = calendar]
           /\ time' = Served(res.time)
           /\ result' = [exc |-> "", text |-> res.text]
    /\ loc' = NoLoc
    /\ pc' = "done"
    /\ UNCHANGED <<_timezone_finder, constructed, threads>>

\* get_utc of the web server
WebGetUtc(server, ntp, clock) ==
    /\ pc = "idle"
    /\ \E res \in {web_get_utc(server, ntp, clock)} :
           /\ call' = [NoCall EXCEPT !.tool = "web_get_utc", !.server = server]
           /\ time' = Served(res.time)
           /\ result' = [exc |-> "", text |-> res.text]
    /\ loc' = NoLoc
    /\ pc' = "done"
    /\ UNCHANGED <<_timezone_finder, constructed, threads>>

\* Where the call goes on after get_ntp_datetime: to the geocoding request
\* of resolve_location, when it sends one
after_ntp ==
    IF /\ call.tool \in {"get_current_time", "calculate_time_distance"}
       /\ needs_geocode(call.tz, call.country, call.city)
    THEN "geo_send" ELSE "compose"

\* The NTP request ends with the server's answer (a packet or an error);
\* the call has its time from here on
NtpAnswers(clock) ==
    /\ pc = "ntp_wait"
    /\ call.ntp.kind # "silent"
    /\ call' = [call EXCEPT !.clock = clock]
    /\ time' = Served(get_ntp_datetime(call.ntp, clock))
    /\ pc' = after_ntp
    /\ UNCHANGED <<loc, result, _timezone_finder, constructed, threads>>

\* The NTP request ends with the socket's timeout
NtpTimesOut(clock) ==
    /\ pc = "ntp_wait"
    /\ call.ntp.kind = "silent"
    /\ call' = [call EXCEPT !.ntp = NtpResponse("timeout", 0), !.clock = clock]
    /\ time' = Served(get_ntp_datetime(NtpResponse("timeout", 0), clock))
    /\ pc' = after_ntp
    /\ UNCHANGED <<loc, result, _timezone_finder, constructed, threads>>

\* geocode_location sends its request; the geocoder will answer with resp
\* or, for kind "Silent", not at all
GeoSend(resp) ==
    /\ pc = "geo_send"
    /\ call' = [call EXCEPT !.resp = resp]
    /\ pc' = "geo_wait"
    /\ UNCHANGED <<time, loc, result, _timezone_finder, constructed, threads>>

\* The geocoding request ends with the geocoder's answer
GeoAnswers ==
    /\ pc = "geo_wait"
    /\ call.resp.kind # "Silent"
    /\ pc' = "compose"
    /\ UNCHANGED <<call, time, loc, result, _timezone_finder, constructed, threads>>

\* The geocoding request ends with requests.Timeout, a RequestException,
\* when it was sent with a timeout
GeoTimesOut ==
    /\ pc = "geo_wait"
    /\ call.resp.kind = "Silent"
    /\ requests_get_timeout # <<>>
    /\ call' = [call EXCEPT !.resp = GeoFailure("RequestException")]
    /\ pc' = "compose"
    /\ UNCHANGED <<time, loc, result, _timezone_finder, constructed, threads>>

\* The call runs on from its last request.  With coordinates it gets to
\* tf = _get_timezone_finder() in coords_to_timezone (123) and goes through
\* that function on thread 0, statement by statement, with no location and
\* no result yet; back from it (pc "lookup"), and on every other path, it
\* runs to its end with the resolver's value r and the outcome out.
CallsIndex(r, out) ==
    IF pc # "lookup" /\ r.tf_calls > 0
    THEN /\ pc' = "index"
         /\ threads' = [threads EXCEPT ![0] = [pc |-> "start", tf |-> 0]]
         /\ UNCHANGED <<loc, result, _timezone_finder, constructed>>
    ELSE /\ pc' = "done"
         /\ loc' = r
         /\ result' = out
         /\ UNCHANGED <<_timezone_finder, constructed, threads>>

\* The rest of get_utc, with what the NTP request gave
ComposeUtc ==
    /\ pc = "compose"
    /\ call.tool = "get_utc"
    /\ result' = [exc |-> "", text |-> utc_time_result(call.server, call.ntp, call.clock).text]
    /\ pc' = "done"
    /\ UNCHANGED <<call, time, loc, _timezone_finder, constructed, threads>>

\* The rest of get_current_time, with what the collaborators gave: the body
\* of current_time_result after the Time Source's result, up to the use of
\* the index and, back from it, to the end
ComposeReport ==
    /\ pc \in {"compose", "lookup"}
    /\ call.tool = "get_current_time"
    /\ \E t \in {get_ntp_datetime(call.ntp, call.clock)},
          r \in {resolve_location(call.tz, call.country, call.city, call.resp)} :
          CallsIndex(r, [exc |-> r.exc,
                         text |-> report(call.calendar,
                                         has_location_of(call.tz, call.country, call.city),
                                         t, r).text])
    /\ UNCHANGED <<call, time>>

\* A direct call of resolve_location starts: up to the geocoding request,
\* when it sends one
ResolveLocation(tz, country, city) ==
    /\ pc = "idle"
    /\ call' = [NoCall EXCEPT !.tool = "resolve_location", !.tz = tz,
                              !.country = country, !.city = city]
    /\ pc' = IF needs_geocode(tz, country, city) THEN "geo_send" ELSE "compose"
    /\ UNCHANGED <<time, loc, result, _timezone_finder, constructed, threads>>

\* The rest of resolve_location, with what the geocoder gave: up to the use
\* of the index and, back from it, to the end
ResolveLocationEnds ==
    /\ pc \in {"compose", "lookup"}
    /\ call.tool = "resolve_location"
    /\ \E r \in {resolve_location(call.tz, call.country, call.city, call.resp)} :
           CallsIndex(r, [exc |-> r.exc, text |-> <<>>])
    /\ UNCHANGED <<call, time>>

(***************************************************************************)
(* _get_timezone_finder, one statement a step; the assignment of line 66   *)
(* is two steps, the constructor call and the store into the global.       *)
(***************************************************************************)
\* if _timezone_finder is None: (65)
TfCheck(t) ==
    /\ threads[t].pc = "start"
    /\ threads' = [threads EXCEPT ![t].pc = IF is_None(_timezone_finder) THEN "construct"
                                                                          ELSE "return"]
    /\ UNCHANGED <<pc, call, time, loc, result, _timezone_finder, constructed>>

\* TimezoneFinder() (66, right-hand side): a new instance
TfConstruct(t) ==
    /\ threads[t].pc = "construct"
    /\ constructed' = TimezoneFinderNew(Singleton).built
    /\ threads' = [threads EXCEPT ![t] = [pc |-> "assign", tf |-> TimezoneFinderNew(Singleton).finder]]
    /\ UNCHANGED <<pc, call, time, loc, result, _timezone_finder>>

\* _timezone_finder = ... (66, the store)
TfAssign(t) ==
    /\ threads[t].pc = "assign"
    /\ _timezone_finder' = threads[t].tf
    /\ threads' = [threads EXCEPT ![t].pc = "return"]
    /\ UNCHANGED <<pc, call, time, loc, result, constructed>>

\* return _timezone_finder (67); the call thread 0 serves has its index and
\* goes on to the lookup
TfReturn(t) ==
    /\ threads[t].pc = "return"
    /\ threads' = [threads EXCEPT ![t] = [pc |-> "done", tf |-> _timezone_finder]]
    /\ pc' = IF t = 0 THEN "lookup" ELSE pc
    /\ UNCHANGED <<call, time, loc, result, _timezone_finder, constructed>>

\* The call returns (or its exception reaches the tool boundary); thread 0
\* is ready for the next one.  Only the singleton outlives the call.
Return ==
    /\ pc = "done"
    /\ pc' = "idle"
    /\ call' = NoCall
    /\ time' = NoTime
    /\ loc' = NoLoc
    /\ result' = NoResult
    /\ threads' = [threads EXCEPT ![0] = [pc |-> "idle", tf |-> 0]]
    /\ UNCHANGED <<_timezone_finder, constructed>>

(***************************************************************************)
(* Inputs                                                                  *)
(***************************************************************************)
\* 2025-07-02 23:30:15 UTC from the NTP server; 2025-07-03 01:05:09 UTC on
\* the local clock
ServerTimes == {JulyFirst + 86400 + 84615}
LocalClocks == {JulyFirst + 172800 + 3909}

NtpResponses ==
    {NtpResponse("ok", tx) : tx \in ServerTimes}
      \cup {NtpResponse("NTPException", 0), NtpResponse("OSError", 0)}

Servers == {<<"pool.ntp.org">>, <<"time.example.org">>}

\* Every str over the alphabet, up to a length
Strings(alphabet, maxlen) == UNION {[1..n -> alphabet] : n \in 0..maxlen}

CalendarTokens == {" ", ",", "unix", "Hebrew", "bogus"}
Calendars == Strings(CalendarTokens, MaxCalLen)

TzPlus0530 == <<"+", "0", "5", ":", "3", "0">>

\* The non-blank tz arguments of the report runs: named zones, fixed
\* offsets, strings that are neither, an offset of a whole day
ReportTzs ==
    {<<" ", "UTC", " ">>, <<"Europe/Warsaw">>, <<"Asia/Dubai">>, TzPlus0530,
     <<"-", "0", "5", "0", "0">>, <<"InvalidTZ">>, <<"Unknown calendar">>,
     <<"+", "2", "4", ":", "0", "0">>}

Blank == {<<>>, <<" ">>}

WarsawMatch ==
    GeoResponse("Match", "52.23,21.01", TRUE,
                <<"Warsaw", ", ", "Masovian Voivodeship", ", ", "Poland">>)

ReportGeoResponses ==
    {GeoFailure("Empty"), GeoFailure("RequestException"), WarsawMatch,
     GeoResponse("Match", "0.0,-30.0", FALSE, <<>>)}

\* A location scenario: the three location arguments and the geocoder's
\* answer.  The answer varies only where the geocoder is asked.
Scenario(tz, country, city, resp) == [tz |-> tz, country |-> country, city |-> city, resp |-> resp]

ReportScenarios ==
    {Scenario(tz, country, city, GeoFailure("Empty")) : tz \in Blank, country \in Blank, city \in Blank}
      \cup {Scenario(tz, <<>>, <<>>, WarsawMatch) : tz \in ReportTzs}
      \cup {Scenario(TzPlus0530, <<"Poland">>, <<"Warsaw">>, WarsawMatch),
            Scenario(<<>>, <<"Poland">>, <<"Warsaw">>, WarsawMatch)}
      \cup {Scenario(<<>>, <<>>, <<"Warsaw">>, resp) : resp \in ReportGeoResponses}
      \cup {Scenario(<<" ">>, <<"Poland">>, <<>>, resp) : resp \in ReportGeoResponses}

(***************************************************************************)
(* Spec: the tools, called one after the other, over every calendar        *)
(* argument up to MaxCalLen tokens.                                        *)
(***************************************************************************)
\* The process is between two calls
Idle == pc = "idle"

\* The geocoder's answer in scenario s, for the call in progress
ScenarioOfCall(s) == s.tz = call.tz /\ s.country = call.country /\ s.city = call.city

Next ==
    \/ Idle /\ \E calendar \in Calendars, s \in ReportScenarios, ntp \in NtpResponses :
                    GetCurrentTime(calendar, s.tz, s.country, s.city, ntp)
    \/ Idle /\ \E calendar \in Calendars, ntp \in NtpResponses, clock \in LocalClocks :
                    WebGetCurrentTime(calendar, ntp, clock)
    \/ Idle /\ \E server \in Servers, ntp \in NtpResponses : GetUtc(server, ntp)
    \/ Idle /\ \E server \in Servers, ntp \in NtpResponses, clock \in LocalClocks :
                    WebGetUtc(server, ntp, clock)
    \/ \E clock \in LocalClocks : NtpAnswers(clock)
    \/ pc = "geo_send" /\ \E s \in ReportScenarios : ScenarioOfCall(s) /\ GeoSend(s.resp)
    \/ GeoAnswers
    \/ ComposeUtc
    \/ ComposeReport
    \/ TfCheck(0)
    \/ TfConstruct(0)
    \/ TfAssign(0)
    \/ TfReturn(0)
    \/ Return

Spec == Init /\ [][Next]_vars

(***************************************************************************)
(* SpecLoc: the Location Resolver over a wide range of location arguments, *)
(* called directly and through get_current_time.                           *)
(***************************************************************************)
OffsetDigits == {"0", "2", "4", "9"}

\* Every string "sHHcMM" with s a sign or nothing, c a colon or nothing
OffsetLikeTzs ==
    {sign \o <<d[1], d[2]>> \o colon \o <<d[3], d[4]>> :
        sign \in {<<>>, <<"+">>, <<"-">>}, colon \in {<<>>, <<":">>},
        d \in [1..4 -> OffsetDigits]}

\* Named zones, padded and malformed offsets, other strings
OtherTzs ==
    {<<"UTC">>, <<" ", "Europe/Warsaw", " ">>, <<"Asia/Tokyo">>, <<"Asia/Dubai">>,
     TzPlus0530, <<" ">> \o TzPlus0530 \o <<" ">>,
     <<"+", "5", ":", "3", "0">>, <<"+", "0", "5", ":", "3">>, <<"+", "0", "5", ":", ":", "3", "0">>,
     <<"+", "0", "5", " ", "3", "0">>, <<"+", "0", "5", ":", "3", "0", "0">>,
     <<"+", "+", "0", "5", "3", "0">>, <<"0", "5", ":", "3", "0", "+">>,
     <<"InvalidTZ">>, <<"Unknown calendar">>, <<"/etc/localtime">>, <<"Europe/Warsaw", " ", "x">>}

LocTzs == OffsetLikeTzs \cup OtherTzs

LocCities ==
    {<<>>, <<" ">>, <<"Warsaw">>, <<" ", "Gotham", " ">>, <<"New York", ", ", "NY", ", ", "USA">>}
LocCountries == {<<>>, <<" ">>, <<"Poland">>, <<" ", "Atlantis">>}

GeoCoords == {"52.23,21.01", "35.68,139.69", "25.20,55.27", "0.0,-30.0", "nan,nan", "91.0,0.0"}

GeoDisplayNames ==
    {<<>>, <<"Warsaw">>, <<"Warsaw", ", ", "Poland">>,
     <<"Warsaw", ", ", "Masovian Voivodeship", ", ", "Poland">>,
     <<"Warsaw", ", ", "Warsaw County", ", ", "Masovian Voivodeship", ", ", "Poland">>}

LocGeoResponses ==
    {GeoFailure(k) : k \in {"RequestException", "InvalidJSON", "Empty", "MissingField",
                            "NonNumeric", "BadShape"}}
      \cup {GeoResponse("Match", c, TRUE, d) : c \in GeoCoords, d \in GeoDisplayNames}
      \cup {GeoResponse("Match", c, FALSE, <<>>) : c \in GeoCoords}

LocScenarios ==
    {Scenario(tz, p[1], p[2], WarsawMatch) :
        tz \in LocTzs,
        p \in {<<<<>>, <<>>>>, <<<<"Poland">>, <<"Warsaw">>>>, <<<<>>, <<" ", "Gotham", " ">>>>}}
      \cup {Scenario(tz, country, city, resp) :
              tz \in Blank, country \in LocCountries, city \in LocCities, resp \in LocGeoResponses}

LocCalendars == {<<>>, <<"unix">>, <<"bogus", ",", "Hebrew">>}

\* A direct call of geocode_location: the text is empty for None, else the
\* coordinates and the display name of the returned tuple
GeocodeLocation(query, resp) ==
    /\ pc = "idle"
    /\ \E g \in {geocode_location(query, resp)} :
           /\ call' = [NoCall EXCEPT !.tool = "geocode_location", !.city = query, !.resp = resp]
           /\ result' = [exc |-> g.exc,
                         text |-> IF g.found THEN <<<<g.coords>>, g.display_name>> ELSE <<>>]
    /\ time' = NoTime
    /\ loc' = NoLoc
    /\ pc' = "done"
    /\ UNCHANGED <<_timezone_finder, constructed, threads>>

\* Queries of one, two and three segments
GeoQueries ==
    {<<"Warsaw">>, <<"Gotham">>, <<"Paris", ", ", "France">>,
     <<"New York", ", ", "NY", ", ", "USA">>}

NextLoc ==
    \/ Idle /\ \E query \in GeoQueries, resp \in LocGeoResponses : GeocodeLocation(query, resp)
    \/ Idle /\ \E s \in LocScenarios : ResolveLocation(s.tz, s.country, s.city)
    \/ pc = "geo_send" /\ \E s \in LocScenarios : ScenarioOfCall(s) /\ GeoSend(s.resp)
    \/ GeoAnswers
    \/ ResolveLocationEnds
    \/ Idle /\ \E calendar \in LocCalendars, tz \in LocTzs, ntp \in NtpResponses :
                    GetCurrentTime(calendar, tz, <<>>, <<>>, ntp)
    \/ \E clock \in LocalClocks : NtpAnswers(clock)
    \/ ComposeReport
    \/ TfCheck(0)
    \/ TfConstruct(0)
    \/ TfAssign(0)
    \/ TfReturn(0)
    \/ Return

SpecLoc == Init /\ [][NextLoc]_vars

(***************************************************************************)
(* SpecHelpers: direct calls of the Time Source (local and web) and of     *)
(* _format_utc_offset.                                                     *)
(***************************************************************************)
\* A direct call of get_ntp_datetime
GetNtpDatetime(ntp, clock) ==
    /\ pc = "idle"
    /\ call' = [NoCall EXCEPT !.tool = "get_ntp_datetime", !.ntp = ntp, !.clock = clock]
    /\ time' = Served(get_ntp_datetime(ntp, clock))
    /\ result' = NoResult
    /\ loc' = NoLoc
    /\ pc' = "done"
    /\ UNCHANGED <<_timezone_finder, constructed, threads>>

\* A direct call of the web server's _get_ntp_datetime
WebGetNtpDatetime(ntp, clock) ==
    /\ pc = "idle"
    /\ call' = [NoCall EXCEPT !.tool = "web_get_ntp_datetime", !.ntp = ntp, !.clock = clock]
    /\ time' = Served(_get_ntp_datetime(ntp, clock))
    /\ result' = NoResult
    /\ loc' = NoLoc
    /\ pc' = "done"
    /\ UNCHANGED <<_timezone_finder, constructed, threads>>

\* A direct call of _format_utc_offset, for a datetime in a zone of the
\* given offset
FormatUtcOffset(ts, offset) ==
    /\ pc = "idle"
    /\ call' = [NoCall EXCEPT !.tool = "_format_utc_offset", !.offset = offset]
    /\ result' = [exc |-> "", text |-> <<_format_utc_offset(DateTime(ts, TzFixed(offset)))>>]
    /\ time' = NoTime
    /\ loc' = NoLoc
    /\ pc' = "done"
    /\ UNCHANGED <<_timezone_finder, constructed, threads>>

\* Transmit timestamps and local clocks, a quarter of an hour apart
HelperServerTimes == {JulyFirst + 900 * k : k \in 0..11}
HelperClocks == {JulyFirst + 3909 + 900 * k : k \in 0..11}

\* The request answers, or ends in a protocol error (NTPException) or in an
\* OSError: a timeout, a failed name lookup, an unreachable network
HelperNtpResponses ==
    {NtpResponse("ok", tx) : tx \in HelperServerTimes}
      \cup {NtpResponse(k, 0) : k \in {"NTPException", "OSError", "timeout", "gaierror"}}

DayMinutes == 24 * 60

\* The offsets of less than a day: whole minutes, a second more, a second less
HelperOffsets ==
    {o \in {60 * m + e : m \in (0 - DayMinutes)..(DayMinutes - 1), e \in {0, 1, 59}} :
        abs(o) < 60 * DayMinutes}

NextHelpers ==
    \/ Idle /\ \E ntp \in HelperNtpResponses, clock \in HelperClocks : GetNtpDatetime(ntp, clock)
    \/ Idle /\ \E ntp \in HelperNtpResponses, clock \in HelperClocks : WebGetNtpDatetime(ntp, clock)
    \/ Idle /\ \E ts \in ServerTimes, offset \in HelperOffsets : FormatUtcOffset(ts, offset)
    \/ Return

SpecHelpers == Init /\ [][NextHelpers]_vars

(***************************************************************************)
(* Properties of the Location Resolver (SpecLoc)                           *)
(***************************************************************************)
\* s has a character that is not whitespace: non-empty after trimming
NonBlank(s) == \E i \in 1..Len(s) : ~IsSpace(s[i])

\* The lines of a text that start with the token tok
LinesWith(text, tok) == SelectSeq(text, LAMBDA l : l # <<>> /\ l[1] = tok)

\* What resolve_location hands to its caller
Outcome(r) == <<r.exc, r.tz, r.name, r.warning>>

\* The other country, city and geocoder answers a call could have had
OtherGeoResponses == {WarsawMatch, GeoFailure("Empty"), GeoFailure("BadShape")}

\* C1: whenever resolve_location is called (directly or by get_current_time)
\* with a tz that is non-empty after trimming, its outcome is the one every
\* other country, city and geocoder answer would have given with that tz, and
\* neither the geocoder nor the timezone index was consulted.
C1_TzPriority ==
    (pc = "done" /\ call.tool \in {"resolve_location", "get_current_time"} /\ NonBlank(call.tz))
    => /\ loc.queries = <<>>
       /\ loc.tf_calls = 0
       /\ \A country \in {<<>>, <<"Poland">>}, city \in {<<>>, <<"Warsaw">>, <<" ", "Gotham", " ">>},
             resp \in OtherGeoResponses :
            Outcome(resolve_location(call.tz, country, city, resp)) = Outcome(loc)

\* A tz that does not parse was given with a city the geocoder resolves
C1_Witness ==
    /\ pc = "done" /\ call.tool = "resolve_location"
    /\ call.tz = <<"InvalidTZ">> /\ call.city = <<"Warsaw">> /\ call.country = <<"Poland">>
    /\ loc.tz = TzNone /\ truthy(loc.warning) /\ loc.queries = <<>>

\* C9: in the tuple resolve_location returns, the warning is present exactly
\* when a location was requested (tz, city or country non-empty after
\* trimming) and no timezone was resolved; a requested location gives a
\* timezone or a warning and never both; no request gives (None, "", None);
\* and the display name is empty whenever the timezone is None.
C9_WarningIffFailed ==
    (pc = "done" /\ call.tool = "resolve_location" /\ loc.exc = "")
    => LET requested == NonBlank(call.tz) \/ NonBlank(call.city) \/ NonBlank(call.country)
           has_tz == loc.tz # TzNone
           has_warning == loc.warning # <<>>
       IN  /\ has_warning <=> (requested /\ ~has_tz)
           /\ requested => (has_tz <=> ~has_warning)
           /\ ~requested => (~has_tz /\ loc.name = <<>> /\ ~has_warning)
           /\ ~has_tz => loc.name = <<>>

\* The geocoder found the place, the timezone index knows no zone there
C9_Witness ==
    /\ pc = "done" /\ call.tool = "resolve_location" /\ loc.exc = ""
    /\ call.tz = <<" ">> /\ call.city = <<" ", "Gotham", " ">>
    /\ loc.queries = <<<<"Gotham">>>> /\ loc.tf_calls = 1
    /\ loc.tz = TzNone /\ loc.warning # <<>> /\ loc.name = <<>>

\* The two digit groups of an offset string, colon or not
OffsetGroups(s) ==
    IF Len(s) >= 4 /\ s[Len(s) - 2] = ":"
    THEN [hh |-> SubSeq(s, Len(s) - 4, Len(s) - 3), mm |-> SubSeq(s, Len(s) - 1, Len(s))]
    ELSE [hh |-> SubSeq(s, Len(s) - 3, Len(s) - 2), mm |-> SubSeq(s, Len(s) - 1, Len(s))]

\* sign, two digits, optional colon, two digits
SignedOffsetForm(s) ==
    /\ Len(s) \in {5, 6}
    /\ s[1] \in {"+", "-"}
    /\ Len(s) = 6 => s[4] = ":"
    /\ \A i \in (2..Len(s)) \ (IF Len(s) = 6 THEN {4} ELSE {}) : IsDigit(s[i])

\* optional sign, two digits, optional colon, two digits
OptionalSignOffsetForm(s) == SignedOffsetForm(s) \/ SignedOffsetForm(<<"+">> \o s)

\* sign x (HH hours + MM minutes), in seconds
OffsetSeconds(s) ==
    (IF s[1] = "-" THEN -1 ELSE 1)
      * (3600 * int2(OffsetGroups(s).hh) + 60 * int2(OffsetGroups(s).mm))

\* The warning names the original string and the accepted formats
NamesStringAndFormats(warning, tz) ==
    /\ Len(warning) = Len(tz) + 2
    /\ warning[1] = "Could not parse timezone \""
    /\ SubSeq(warning, 2, Len(tz) + 1) = tz
    /\ warning[Len(warning)]
         = "\". Use IANA format (e.g., \"Europe/Warsaw\") or UTC offset (e.g., \"+02:00\")."

\* The trimmed tz is not a named zone: ZoneInfo finds no zone for it, or
\* refuses the key
NotNamedZone(tz) == NonBlank(tz) /\ ZoneInfoNew(strip(tz)).exc # ""

\* C10 as stated: a tz that is not a named zone becomes a fixed offset exactly
\* when it is an optional sign, two digits, an optional colon and two digits,
\* and every other non-empty string gives no timezone and the warning.
C10_OptionalSign ==
    (pc = "done" /\ call.tool = "resolve_location" /\ NotNamedZone(call.tz) /\ loc.exc = "")
    => IF OptionalSignOffsetForm(strip(call.tz))
       THEN loc.tz = TzFixed(OffsetSeconds(strip(call.tz))) /\ loc.warning = <<>>
       ELSE loc.tz = TzNone /\ NamesStringAndFormats(loc.warning, call.tz)

\* C10: whenever resolve_location returns for a tz that is not a named
\* zone, the tz was taken as a fixed offset exactly when, trimmed, it is a
\* sign (mandatory), two digits, an optional colon and two digits, and the
\* offset is sign x (HH hours + MM minutes); every other such string, an
\* offset without a sign among them, gives no timezone and a warning that
\* names the original string and the accepted formats.
C10_SignedOffset ==
    (pc = "done" /\ call.tool = "resolve_location" /\ NotNamedZone(call.tz) /\ loc.exc = "")
    => IF SignedOffsetForm(strip(call.tz))
       THEN loc.tz = TzFixed(OffsetSeconds(strip(call.tz))) /\ loc.warning = <<>>
       ELSE loc.tz = TzNone /\ NamesStringAndFormats(loc.warning, call.tz)

\* "0200", an offset without a sign, is not taken as an offset: no timezone
\* and the warning
C10_WitnessUnsigned ==
    /\ pc = "done" /\ call.tool = "resolve_location"
    /\ call.tz = <<"0", "2", "0", "0">>
    /\ loc.exc = "" /\ loc.tz = TzNone
    /\ NamesStringAndFormats(loc.warning, call.tz)

\* " +05:30 " resolves to the offset of five and a half hours
C10_Witness ==
    /\ pc = "done" /\ call.tool = "resolve_location"
    /\ call.tz = <<" ">> \o TzPlus0530 \o <<" ">>
    /\ loc.tz = TzFixed(19800) /\ loc.warning = <<>>

\* The offset string in +HH:MM form
ColonForm(s) == <<s[1]>> \o OffsetGroups(s).hh \o <<":">> \o OffsetGroups(s).mm

\* What the "UTC Offset: " lines of a text show
ShownOffsets(text) ==
    LET found == LinesWith(text, "UTC Offset: ") IN [i \in 1..Len(found) |-> Tail(found[i])]

\* get_current_time returned for a tz of the offset form, taken as a fixed offset
OffsetReported ==
    /\ pc = "done" /\ call.tool = "get_current_time" /\ result.exc = ""
    /\ SignedOffsetForm(strip(call.tz)) /\ loc.tz.kind = "fixed"

\* C8 as stated: the "UTC Offset:" line shows the sign and the digits of the
\* tz argument.
C8_SameDigits == OffsetReported => ShownOffsets(result.text) = <<ColonForm(strip(call.tz))>>

\* C8: for a tz of the offset form that is accepted, whatever the calendar
\* argument, the one "UTC Offset:" line shows the offset of the tz argument
\* in normal form: the same number of minutes east of UTC, minutes below 60,
\* "-" only for an offset below zero.  It shows the sign and digits of the
\* argument exactly when the argument's minutes are below 60 and the
\* argument is not a zero offset written with "-".
C8_OffsetNormalised ==
    OffsetReported
    => LET s == ColonForm(strip(call.tz))
           shown == ShownOffsets(result.text)
       IN  /\ Len(shown) = 1
           /\ SignedOffsetForm(shown[1]) /\ Len(shown[1]) = 6
           /\ OffsetSeconds(shown[1]) = OffsetSeconds(s)
           /\ int2(OffsetGroups(shown[1]).mm) < 60
           /\ shown[1][1] = "-" => OffsetSeconds(s) < 0
           /\ shown[1] = s <=> (int2(OffsetGroups(s).mm) < 60 /\ ~(s[1] = "-" /\ OffsetSeconds(s) = 0))

\* tz="+05:30" with calendars requested displays +05:30
C8_Witness ==
    /\ OffsetReported
    /\ call.tz = TzPlus0530 /\ call.calendar = <<"bogus", ",", "Hebrew">>
    /\ ShownOffsets(result.text) = <<TzPlus0530>>

(***************************************************************************)
(* Properties of the lazy initializer (SpecConc)                           *)
(***************************************************************************)
\* C3: however the concurrent first calls of _get_timezone_finder interleave,
\* the TimezoneFinder constructor runs at most once and the callers that
\* have returned, the call thread 0 serves among them, hold the same
\* instance.
C3_InitOnce ==
    /\ constructed <= 1
    /\ \A t, u \in Threads :
         (threads[t].pc = "done" /\ threads[u].pc = "done") => threads[t].tf = threads[u].tf

\* get_current_time for Warsaw waits for the geocoder on thread 0, with its
\* time served and no location or result yet, and another call has built
\* the index on thread 1 meanwhile
C3_BuiltDuringRequest ==
    /\ pc = "geo_wait"
    /\ call.tool = "get_current_time"
    /\ time.is_ntp /\ time.queries = 1
    /\ loc = NoLoc
    /\ result = NoResult
    /\ threads[1] = [pc |-> "done", tf |-> 1]
    /\ constructed = 1
    /\ _timezone_finder = 1

\* Two calls that overlapped: get_current_time for Warsaw on thread 0 and
\* another lookup on thread 1 have both gone through _get_timezone_finder,
\* the constructor has run twice and the global holds the second instance;
\* the report is the one a call alone returns
C3_TwoCallsBuiltTwice ==
    /\ pc = "done"
    /\ call.tool = "get_current_time"
    /\ result.exc = ""
    /\ loc.tz.key = "Europe/Warsaw"
    /\ threads[0].pc = "done"
    /\ threads[1].pc = "done"
    /\ threads[2].pc = "start"
    /\ constructed = 2
    /\ _timezone_finder = 2

(***************************************************************************)
(* Properties of the reports (Spec)                                        *)
(***************************************************************************)
\* get_current_time of the local server has answered (or raised)
Answered == pc = "done" /\ call.tool = "get_current_time"

\* ... and returned a text
Reported == Answered /\ result.exc = ""

\* C2: every call of get_current_time returns a text; no exception escapes.
C2_Total == Answered => (result.exc = "" /\ result.text # <<>>)

\* The first lines of the calendar sections
SectionTitles ==
    {"--- Unix Timestamp ---", "--- ISO Week Date ---", "--- Hijri Calendar ---",
     "--- Japanese Calendar ---", "--- Persian Calendar ---", "--- Hebrew Calendar ---"}

\* The block a line belongs to, 1 to 6 in the order the blocks are to
\* appear; 0 for blank lines and lines that occur in more than one block.
\* located: the text has the header of a resolved location, so that its
\* "UTC Time: " line is the UTC reference.
BlockOf(line, located) ==
    IF line = <<>> THEN 0
    ELSE IF line = NtpFallbackNotice THEN 6
    ELSE IF line[1] = "Note: " \/ line = RetryTip THEN 1
    ELSE IF line[1] = "UTC Time: " THEN (IF located THEN 5 ELSE 2)
    ELSE IF line[1] \in {"Local Time: ", "Location: ", "Timezone: ", "UTC Offset: ", "DST Active: "} THEN 2
    ELSE IF line[1] = "Date: " \/ line[1] \in SectionTitles THEN 3
    ELSE IF line[1] = "(Note: Unknown calendar format ignored: " THEN 4
    ELSE 0

\* C4: in every text get_current_time returns, the lines of the six blocks
\* appear in the fixed order, so that no block shows up in two places.
C4_BlockOrder ==
    Reported
    => LET text == result.text
           located == LinesWith(text, "Local Time: ") # <<>>
       IN  \A i, j \in 1..Len(text) :
             (i < j /\ BlockOf(text[i], located) > 0 /\ BlockOf(text[j], located) > 0)
             => BlockOf(text[i], located) <= BlockOf(text[j], located)

\* The calendar names of a call, as the caller listed them
ListedNames == IF NonBlank(call.calendar) THEN requested_calendars(call.calendar) ELSE <<>>

\* C5: the text get_current_time returns has one section per occurrence of a
\* known calendar name, in the caller's order, and one warning line per
\* occurrence of an unknown name.
C5_OnePerOccurrence ==
    Reported
    => LET known == SelectSeq(ListedNames, is_known_calendar)
           unknown == SelectSeq(ListedNames, LAMBDA n : n # <<>> /\ ~is_known_calendar(n))
           titles == SelectSeq(result.text, LAMBDA l : l # <<>> /\ l[1] \in SectionTitles)
           notes == LinesWith(result.text, "(Note: Unknown calendar format ignored: ")
       IN  /\ titles = [i \in 1..Len(known) |-> Head(format_calendar(known[i], time.utc_time))]
           /\ notes = [i \in 1..Len(unknown) |-> unknown_calendar_warning(unknown[i])]

\* C6: when the Time Source fell back to the local clock, the last line of
\* the text that get_current_time (local and web) and get_utc (local and
\* web) return is the fallback notice.
C6_NtpNoticeLast ==
    (/\ pc = "done"
     /\ call.tool \in {"get_current_time", "web_get_current_time", "get_utc", "web_get_utc"}
     /\ result.exc = ""
     /\ ~time.is_ntp)
    => /\ result.text # <<>>
       /\ result.text[Len(result.text)] = NtpFallbackNotice

\* NTP failed, the city was resolved (a UTC reference line precedes the
\* notice) and an unknown calendar was listed
C6_Witness ==
    /\ Reported /\ ~time.is_ntp
    /\ call.city = <<"Warsaw">> /\ loc.tz = TzZoneInfo("Europe/Warsaw")
    /\ call.calendar = <<"bogus", ",", "unix">>
    /\ result.text[Len(result.text)] = NtpFallbackNotice
    /\ result.text[Len(result.text) - 1][1] = "UTC Time: "

\* C7: when tz, country and city are empty or whitespace, the text starts
\* with the UTC Time line and the Day line, the header ends there, and the
\* text has no line of a location block, no location warning and no other
\* UTC Time line.
C7_NoLocationBlock ==
    (Reported /\ ~NonBlank(call.tz) /\ ~NonBlank(call.country) /\ ~NonBlank(call.city))
    => LET text == result.text
       IN  /\ Len(text) >= 2
           /\ text[1] = <<"UTC Time: ">> \o strftime_datetime(time.utc_time)
           /\ text[2] = <<"Day: ">> \o strftime_A(time.utc_time)
           /\ Len(text) >= 3 => (text[3] = NtpFallbackNotice \/ Len(LinesWith(<<text[3]>>, "Date: ")) = 1)
           /\ Len(LinesWith(text, "UTC Time: ")) = 1
           /\ \A i \in 1..Len(text) :
                /\ text[i] # RetryTip
                /\ text[i] # <<>> =>
                     text[i][1] \notin {"Local Time: ", "Location: ", "Timezone: ",
                                        "UTC Offset: ", "DST Active: ", "Note: "}

\* Whitespace-only location arguments, with calendars listed
C7_Witness ==
    /\ Reported
    /\ call.tz = <<" ">> /\ call.country = <<" ">> /\ call.city = <<" ">>
    /\ call.calendar = <<"Hebrew", ",", "bogus">>
    /\ result.text[1][1] = "UTC Time: "

(***************************************************************************)
(* Properties of the Time Source and of the offset format (SpecHelpers)    *)
(***************************************************************************)
\* C13: get_ntp_datetime and the web server's _get_ntp_datetime always
\* return: the server's transmit timestamp and TRUE when the request
\* answered, the local clock and FALSE when it failed in any way; the
\* instant returned is in UTC either way.
C13_TimeSourceRecovers ==
    (pc = "done" /\ call.tool \in {"get_ntp_datetime", "web_get_ntp_datetime"})
    => /\ result.exc = ""
       /\ time.utc_time.tz = TzFixed(0)
       /\ IF call.ntp.kind = "ok"
          THEN time.utc_time.ts = call.ntp.tx_time /\ time.is_ntp
          ELSE time.utc_time.ts = call.clock /\ ~time.is_ntp

\* The request timed out and the local clock was returned
C13_Witness ==
    /\ pc = "done" /\ call.tool = "get_ntp_datetime"
    /\ call.ntp.kind = "timeout"
    /\ time.utc_time = [ts |-> call.clock, tz |-> TzFixed(0)] /\ ~time.is_ntp

\* C20: for every offset of less than 24 hours _format_utc_offset returns
\* six characters: "+" for an offset of zero or more and "-" below zero,
\* two digits HH, a colon, two digits MM, where MM is below 60 and
\* HH * 60 + MM is the magnitude of the offset in whole minutes.
C20_OffsetFormat ==
    (pc = "done" /\ call.tool = "_format_utc_offset")
    => LET d == result.text[1]
       IN  /\ Len(d) = 6
           /\ d[1] = (IF call.offset >= 0 THEN "+" ELSE "-")
           /\ IsDigit(d[2]) /\ IsDigit(d[3]) /\ d[4] = ":" /\ IsDigit(d[5]) /\ IsDigit(d[6])
           /\ int2(<<d[5], d[6]>>) < 60
           /\ 60 * int2(<<d[2], d[3]>>) + int2(<<d[5], d[6]>>) = abs(call.offset) \div 60

\* Five hours, thirty minutes and fifty-nine seconds west is shown as -05:30
C20_Witness ==
    /\ pc = "done" /\ call.tool = "_format_utc_offset"
    /\ call.offset = 0 - (5 * 3600 + 30 * 60 + 59)
    /\ result.text = <<<<"-", "0", "5", ":", "3", "0">>>>

(***************************************************************************)
(* More properties of the reports (Spec)                                   *)
(***************************************************************************)
\* A location was asked for
Requested == NonBlank(call.tz) \/ NonBlank(call.city) \/ NonBlank(call.country)

\* The location argument that was used: tz, else city, else country
UsedArgument ==
    IF NonBlank(call.tz) THEN call.tz ELSE IF NonBlank(call.city) THEN call.city ELSE call.country

\* The first tokens of the lines of a resolved location's header
LocationBlockTokens == {"Local Time: ", "Location: ", "Timezone: ", "UTC Offset: ", "DST Active: "}

\* The line has one of the tokens as its first
StartsWith(line, tokens) == line # <<>> /\ line[1] \in tokens

\* C11: when a location was asked for and the resolver returned none,
\* get_current_time returns a text whose first line is "Note:" with a
\* warning that quotes the argument as given, whose second line is the
\* retry tip, which then has the UTC Time line followed by the Day line,
\* and which has no line of a location block.
C11_FallbackView ==
    (Answered /\ Requested /\ loc.exc = "" /\ loc.tz = TzNone)
    => LET text == result.text
       IN  /\ result.exc = ""
           /\ Len(text) >= 4
           /\ text[1][1] = "Note: "
           /\ SubSeq(text[1], 3, Len(UsedArgument) + 2) = UsedArgument
           /\ text[2] = RetryTip
           /\ \E i \in 3..(Len(text) - 1) :
                /\ text[i] = <<"UTC Time: ">> \o strftime_datetime(time.utc_time)
                /\ text[i + 1] = <<"Day: ">> \o strftime_A(time.utc_time)
           /\ \A i \in 1..Len(text) : ~StartsWith(text[i], LocationBlockTokens)

\* The city was sent to the geocoder and was not found
C11_Witness ==
    /\ Reported /\ call.city = <<"Warsaw">> /\ call.calendar = <<>>
    /\ loc.queries = <<<<"Warsaw">>>> /\ loc.tz = TzNone
    /\ result.text[1][1] = "Note: " /\ result.text[1][3] = "Warsaw"
    /\ result.text[4][1] = "UTC Time: "

\* ",".join(parts)
RECURSIVE JoinComma(_)
JoinComma(parts) ==
    IF Len(parts) = 0 THEN <<>>
    ELSE IF Len(parts) = 1 THEN parts[1]
    ELSE parts[1] \o <<",">> \o JoinComma(Tail(parts))

\* The names between the commas of a calendar argument, each trimmed and in
\* lower case
NormalNames(calendar) ==
    LET parts == split(calendar, ",") IN [i \in 1..Len(parts) |-> lower(strip(parts[i]))]

\* The calendar argument with every name trimmed and in lower case
Canonical(calendar) == JoinComma(NormalNames(calendar))

\* The text of the call just answered, had its calendar argument been c
TextFor(c) == report(c, has_location_of(call.tz, call.country, call.city), time, loc).text

\* C12: the text get_current_time returns is the text it returns for the
\* calendar argument with every name trimmed and in lower case; every known
\* name listed has its section, and a listed name that is unknown has a
\* warning line and does not keep the others from being rendered.
C12_NamesNormalised ==
    Reported
    => LET titles == SelectSeq(result.text, LAMBDA l : StartsWith(l, SectionTitles))
           lines == {result.text[i] : i \in 1..Len(result.text)}
       IN  /\ result.text = TextFor(Canonical(call.calendar))
           /\ NonBlank(call.calendar)
                => Len(titles) = Len(SelectSeq(NormalNames(call.calendar), is_known_calendar))
           /\ \A i \in 1..Len(NormalNames(call.calendar)) :
                LET name == NormalNames(call.calendar)[i]
                IN  name # <<>> =>
                      IF name[1] \in CALENDAR_FORMATTERS /\ Len(name) = 1
                      THEN \E k \in 1..Len(titles) : titles[k] = Head(format_calendar(name, time.utc_time))
                      ELSE unknown_calendar_warning(name) \in lines

\* "bogus,Hebrew": the Hebrew section is rendered, bogus has its warning
C12_Witness ==
    /\ Reported /\ call.calendar = <<"bogus", ",", "Hebrew">>
    /\ \E i \in 1..Len(result.text) : result.text[i] = <<"--- Hebrew Calendar ---">>
    /\ \E i \in 1..Len(result.text) : result.text[i] = unknown_calendar_warning(<<"bogus">>)

(***************************************************************************)
(* More properties of the Location Resolver (SpecLoc)                      *)
(***************************************************************************)
\* The geocoder did not answer with a usable match, or the timezone index
\* has no zone for the match, or names a zone that cannot be constructed
GeoFailed(resp) ==
    \/ resp.kind # "Match"
    \/ coords_to_timezone(resp.coords) = <<>>
    \/ ZoneInfoNew(coords_to_timezone(resp.coords)).exc # ""

\* C14: whenever resolve_location asked the geocoder for a city or a country
\* and the geocoder or the timezone lookup failed in any way, the call
\* returns the "not found" result: no timezone and a warning.
C14_FailuresSwallowed ==
    (pc = "done" /\ call.tool = "resolve_location" /\ loc.queries # <<>> /\ GeoFailed(call.resp))
    => (loc.exc = "" /\ loc.tz = TzNone /\ loc.warning # <<>>)

\* C15: when tz is blank and city is not, resolve_location sends the trimmed
\* city, and nothing else, to the geocoder; its outcome is the one every
\* other country would have given; and when the city is not resolved the
\* warning is the city's.  The country is sent to the geocoder only when tz
\* and city are both blank.
C15_CityBeforeCountry ==
    (pc = "done" /\ call.tool = "resolve_location")
    => /\ (~NonBlank(call.tz) /\ NonBlank(call.city))
          => /\ loc.queries = <<strip(call.city)>>
             /\ \A country \in LocCountries :
                  Outcome(resolve_location(call.tz, country, call.city, call.resp)) = Outcome(loc)
             /\ (loc.exc = "" /\ loc.tz = TzNone)
                  => /\ loc.warning[1] = "Could not resolve location \""
                     /\ SubSeq(loc.warning, 2, Len(call.city) + 1) = call.city
       /\ (loc.queries # <<>> /\ ~NonBlank(call.city))
          => (~NonBlank(call.tz) /\ loc.queries = <<strip(call.country)>>)

\* A city the geocoder does not find, given with a country
C15_Witness ==
    /\ pc = "done" /\ call.tool = "resolve_location"
    /\ call.tz = <<" ">> /\ call.city = <<" ", "Gotham", " ">> /\ call.country = <<"Poland">>
    /\ call.resp = GeoFailure("Empty")
    /\ loc.queries = <<<<"Gotham">>>> /\ loc.tz = TzNone
    /\ loc.warning[1] = "Could not resolve location \""

(***************************************************************************)
(* Properties of the report's header, trailer and instants (Spec)          *)
(***************************************************************************)
\* The resolver gave a timezone for the location asked for
Located == Requested /\ loc.tz # TzNone

\* Line i is the UTC reference: a "UTC Time: " line after a blank line, at
\* the end of the text or just before the NTP notice
IsUtcReference(text, i) ==
    /\ i > 1 /\ text[i - 1] = EmptyLine
    /\ StartsWith(text[i], {"UTC Time: "})
    /\ i = Len(text) \/ (i = Len(text) - 1 /\ text[Len(text)] = NtpFallbackNotice)

\* C16: the text get_current_time returns ends with the UTC reference line
\* exactly when a location was asked for and was resolved.
C16_UtcReference ==
    Reported => ((\E i \in 1..Len(result.text) : IsUtcReference(result.text, i)) <=> Located)

\* tz="+05:30" with a calendar: the text ends with the UTC reference
C16_Witness ==
    /\ Reported /\ call.tz = TzPlus0530 /\ call.calendar = <<"unix">> /\ time.is_ntp
    /\ IsUtcReference(result.text, Len(result.text))

\* C17: the text for a resolved location starts with the Local Time, Day,
\* Location, Timezone and UTC Offset lines, in this order, for named zones
\* and fixed offsets alike; a DST Active line is there at most once, only
\* for a named zone, right after the UTC Offset line, and says Yes or No.
C17_LocatedHeader ==
    (Reported /\ Located)
    => LET text == result.text
           dst == LinesWith(text, "DST Active: ")
       IN  /\ Len(text) >= 5
           /\ <<text[1][1], text[2][1], text[3][1], text[4][1], text[5][1]>>
                = <<"Local Time: ", "Day: ", "Location: ", "Timezone: ", "UTC Offset: ">>
           /\ Len(dst) <= 1
           /\ dst # <<>> => /\ loc.tz.kind = "zoneinfo"
                            /\ text[6] = dst[1]
                            /\ dst[1] \in {<<"DST Active: ", "Yes">>, <<"DST Active: ", "No">>}
           /\ loc.tz.kind = "fixed" => dst = <<>>

\* A fixed offset: the UTC Offset line is there, the DST Active line is not
C17_Witness ==
    /\ Reported /\ call.tz = <<"-", "0", "5", "0", "0">> /\ loc.tz = TzFixed(0 - 18000)
    /\ result.text[5] = <<"UTC Offset: ", "-", "0", "5", ":", "0", "0">>
    /\ LinesWith(result.text, "DST Active: ") = <<>>

\* C18: a call of get_current_time or get_utc, local or web, sends one NTP
\* request and get_current_time at most one geocoding request, whatever
\* these requests answer.
C18_NoRetries ==
    (pc = "done"
       /\ call.tool \in {"get_current_time", "web_get_current_time", "get_utc", "web_get_utc"})
    => /\ time.queries = 1
       /\ Len(loc.queries) <= 1
       /\ call.tool # "get_current_time" => loc.queries = <<>>

\* The NTP request failed and the geocoder did not find the city
C18_Witness ==
    /\ Answered /\ ~time.is_ntp /\ time.queries = 1
    /\ loc.queries = <<<<"Warsaw">>>> /\ loc.tz = TzNone /\ loc.warning # <<>>

\* The instant the report displays
DisplayInstant == IF loc.tz # TzNone THEN [ts |-> time.utc_time.ts, tz |-> loc.tz] ELSE time.utc_time

\* The lines of s are consecutive lines of text
HasLines(text, s) == \E k \in 0..(Len(text) - Len(s)) : SubSeq(text, k + 1, k + Len(s)) = s

\* C19: in the text get_current_time returns, the header's time and Day
\* line, the Gregorian date line and every calendar section show one
\* instant: the one reading of the Time Source, in the resolved zone when
\* there is one and in UTC otherwise; the UTC reference line shows the same
\* reading in UTC.
C19_OneInstant ==
    Reported
    => LET text == result.text
           dt == DisplayInstant
           names == NormalNames(call.calendar)
       IN  /\ time.queries = 1
           /\ HasLines(text, << <<IF Located THEN "Local Time: " ELSE "UTC Time: ">>
                                   \o strftime_datetime(dt),
                                <<"Day: ">> \o strftime_A(dt) >>)
           /\ Len(LinesWith(text, "Day: ")) = 1
           /\ NonBlank(call.calendar)
                => /\ LinesWith(text, "Date: ")
                        = << <<"Date: ">> \o strftime_date(dt) \o <<" (Gregorian)">> >>
                   /\ \A i \in 1..Len(names) :
                        is_known_calendar(names[i]) => HasLines(text, format_calendar(names[i], dt))
           /\ Located
                => /\ text[1] = <<"Local Time: ">> \o strftime_datetime(dt)
                   /\ LinesWith(text, "UTC Time: ")
                        = << <<"UTC Time: ">> \o strftime_datetime(time.utc_time) >>

\* Warsaw, where it is already the next day, with the Hebrew calendar
C19_Witness ==
    /\ Reported /\ time.is_ntp
    /\ call.city = <<"Warsaw">> /\ loc.tz = TzZoneInfo("Europe/Warsaw")
    /\ call.calendar = <<"Hebrew">>
    /\ strftime_date(DisplayInstant) # strftime_date(time.utc_time)
    /\ HasLines(result.text, calendar_hebrew(DisplayInstant))

(***************************************************************************)
(* Report Builder: time_distance_result (date/duration arithmetic)         *)
(*                                                                         *)
(* A date string is written character by character: "2025-01-01" is ten    *)
(* characters, "2025-01-01T05:30:00+05:30" twenty-five.                    *)
(***************************************************************************)
\* Days from 1970-01-01 to the civil date y-m-d (proleptic Gregorian)
days_from_civil(y, m, d) ==
    LET yy == IF m <= 2 THEN y - 1 ELSE y
        era == yy \div 400
        yoe == yy - era * 400
        mp == IF m > 2 THEN m - 3 ELSE m + 9
        doy == (153 * mp + 2) \div 5 + d - 1
        doe == yoe * 365 + yoe \div 4 - yoe \div 100 + doy
    IN  era * 146097 + doe - 719468

\* The civil date of a day number: [year, month, day]
civil_from_days(z) ==
    LET zz == z + 719468
        era == zz \div 146097
        doe == zz - era * 146097
        yoe == (doe - doe \div 1460 + doe \div 36524 - doe \div 146096) \div 365
        doy == doe - (365 * yoe + yoe \div 4 - yoe \div 100)
        mp == (5 * doy + 2) \div 153
        d == doy - (153 * mp + 2) \div 5 + 1
        m == IF mp < 10 THEN mp + 3 ELSE mp - 9
    IN  [year |-> yoe + era * 400 + (IF m <= 2 THEN 1 ELSE 0), month |-> m, day |-> d]

\* An ISO-8601 date or date-time read as an instant.  z is the zone
\* designator after the date and time: none (a naive value, interpreted in
\* the zone tz), "Z", or a signed offset.
fromisoformat(s, tz) ==
    LET days == days_from_civil(100 * int2(SubSeq(s, 1, 2)) + int2(SubSeq(s, 3, 4)), int2(SubSeq(s, 6, 7)), int2(SubSeq(s, 9, 10)))
        secs == IF Len(s) >= 19
                THEN int2(SubSeq(s, 12, 13)) * 3600 + int2(SubSeq(s, 15, 16)) * 60 + int2(SubSeq(s, 18, 19))
                ELSE 0
        z == IF Len(s) > 19 THEN SubSeq(s, 20, Len(s)) ELSE <<>>
        m == offset_pattern(z)
        zone == IF z = <<>> THEN tz
                ELSE IF z = <<"Z">> THEN TzUTC
                ELSE TzFixed((IF m.sign = "+" THEN 1 ELSE -1) * (int2(m.hh) * 3600 + int2(m.mm) * 60))
    IN  DateTime(days * 86400 + secs - utcoffset(DateTime(0, zone)), zone)

\* An endpoint: the token "now" is the Time Source's instant in the zone
\* tz, anything else an ISO-8601 value
parse_endpoint(s, now, tz) ==
    IF lower(strip(s)) = <<"now">> THEN astimezone(now, tz) ELSE fromisoformat(strip(s), tz)

\* dt.isoformat(sep=" ") without the designator, for any year of four digits
isoformat(dt) ==
    LET w == dt.ts + utcoffset(dt)
        c == civil_from_days(w \div 86400)
    IN  decimal(c.year) \o <<"-">> \o fmt02d(c.month) \o <<"-">> \o fmt02d(c.day) \o <<" ">>
          \o fmt02d((w % 86400) \div 3600) \o <<":">> \o fmt02d((w % 3600) \div 60)
          \o <<":">> \o fmt02d(w % 60)

\* The non-zero components among days, hours and minutes, largest first
auto_breakdown(a) ==
    LET d == a \div 86400
        h == (a % 86400) \div 3600
        m == (a % 3600) \div 60
        part(n, word) == IF n = 0 THEN <<>> ELSE <<decimal(n) \o <<word>>>>
        parts == part(d, " days") \o part(h, " hours") \o part(m, " minutes")
    IN  [i \in 1..Len(parts) |-> IF i = 1 THEN parts[i] ELSE <<", ">> \o parts[i]]

RECURSIVE concat(_)
concat(parts) == IF parts = <<>> THEN <<>> ELSE Head(parts) \o concat(Tail(parts))

\* Seconds in a unit of the fractional renderings
unit_seconds(unit) ==
    CASE unit = <<"days">> -> 86400
      [] unit = <<"weeks">> -> 7 * 86400
      [] unit = <<"hours">> -> 3600
      [] unit = <<"minutes">> -> 60

\* f"{a / unit:.2f}": hundredths, rounded to the nearest
two_decimals(a, per) ==
    LET q == 100 * (a \div per) + (200 * (a % per) + per) \div (2 * per)
    IN  decimal(q \div 100) \o <<".">> \o fmt02d(q % 100)

\* The signed duration in the requested unit
render_distance(diff, unit) ==
    (IF diff < 0 THEN <<"-">> ELSE <<>>)
      \o (CASE unit = <<"auto">> -> concat(auto_breakdown(abs(diff)))
            [] unit = <<"seconds">> -> decimal(abs(diff)) \o <<" seconds">>
            [] OTHER -> two_decimals(abs(diff), unit_seconds(unit)) \o <<" ">> \o unit)

UsageError == <<<<"Error: ", "same value for both endpoints">>>>

\* The report of a non-zero distance: the parsed endpoints, the duration,
\* the direction and the endpoints' UTC-reference times
distance_report(from_dt, to_dt, unit) ==
    << <<"From: ">> \o isoformat(from_dt),
       <<"To: ">> \o isoformat(to_dt),
       <<"Distance: ">> \o render_distance(to_dt.ts - from_dt.ts, unit),
       <<"Direction: ", IF to_dt.ts > from_dt.ts THEN "future" ELSE "past">>,
       <<"From (UTC): ">> \o isoformat(astimezone(from_dt, TzUTC)),
       <<"To (UTC): ">> \o isoformat(astimezone(to_dt, TzUTC)) >>

\* time_distance_result that takes the endpoints for equal when the
\* caller wrote the same string twice
distance_text_same_string(from_date, to_date, unit, now, tz) ==
    IF lower(strip(from_date)) = lower(strip(to_date)) THEN UsageError
    ELSE distance_report(parse_endpoint(from_date, now, tz), parse_endpoint(to_date, now, tz), unit)

\* The text for two endpoints, with the Time Source's instant and the zone
\* of the resolved location (UTC if there is none)
distance_text(from_date, to_date, unit, now, tz) ==
    IF parse_endpoint(from_date, now, tz).ts = parse_endpoint(to_date, now, tz).ts THEN UsageError
    ELSE distance_report(parse_endpoint(from_date, now, tz), parse_endpoint(to_date, now, tz), unit)

\* The zone the endpoints are read in
distance_zone(r) == IF resolved(r) THEN r.tz ELSE TzUTC

\* time_distance_result(from_date, to_date, unit, timezone, country, city):
\* [exc, text, time, loc]
time_distance_result(from_date, to_date, unit, tz, country, city, ntp, clock, resp) ==
    LET t == get_ntp_datetime(ntp, clock)
        r == resolve_location(tz, country, city, resp)
    IN  [exc |-> r.exc,
         text |-> IF r.exc # "" THEN <<>>
                  ELSE distance_text(from_date, to_date, unit, t.utc_time, distance_zone(r)),
         time |-> t, loc |-> r]

\* The tool calculate_time_distance is called and sends its NTP request
CalculateTimeDistance(from_date, to_date, unit, tz, country, city, ntp) ==
    /\ pc = "idle"
    /\ call' = [NoCall EXCEPT !.tool = "calculate_time_distance", !.from_date = from_date,
                              !.to_date = to_date, !.unit = unit, !.tz = tz,
                              !.country = country, !.city = city, !.ntp = ntp]
    /\ pc' = "ntp_wait"
    /\ UNCHANGED <<time, loc, result, _timezone_finder, constructed, threads>>

\* The rest of calculate_time_distance, with what the collaborators gave
ComposeDistance ==
    /\ pc \in {"compose", "lookup"}
    /\ call.tool = "calculate_time_distance"
    /\ \E res \in {time_distance_result(call.from_date, call.to_date, call.unit, call.tz,
                                        call.country, call.city, call.ntp, call.clock,
                                        call.resp)} :
          CallsIndex(res.loc, [exc |-> res.exc, text |-> res.text])
    /\ UNCHANGED <<call, time>>

\* "yyyy-mm-dd" and "yyyy-mm-ddThh:mm:ss", character by character
IsoDate(y, m, d) == decimal(y) \o <<"-">> \o fmt02d(m) \o <<"-">> \o fmt02d(d)
IsoDateTime(y, m, d, hh, mm, ss) ==
    IsoDate(y, m, d) \o <<"T">> \o fmt02d(hh) \o <<":">> \o fmt02d(mm) \o <<":">> \o fmt02d(ss)

\* The endpoints of the distance runs: "now" in two spellings, the dates of
\* the tool's tests, the same instants written with a time, with "Z" and
\* with an offset, and the instant the NTP server reports
DistDates ==
    {<<"now">>, <<" ", "NOW">>,
     IsoDate(2025, 1, 1), IsoDate(2025, 1, 15),
     IsoDateTime(2025, 1, 1, 0, 0, 0),
     IsoDateTime(2025, 1, 1, 0, 0, 0) \o <<"Z">>,
     IsoDateTime(2025, 1, 1, 5, 30, 0) \o TzPlus0530,
     IsoDateTime(2024, 12, 31, 18, 30, 0) \o <<"Z">>,
     IsoDateTime(2025, 7, 2, 23, 30, 15)}

DistUnits == {<<"auto">>, <<"days">>, <<"weeks">>, <<"hours">>, <<"minutes">>, <<"seconds">>}

TokyoMatch == GeoResponse("Match", "35.68,139.69", TRUE, <<"Tokyo", ", ", "Japan">>)

\* No location, a fixed offset, a named zone without DST, a city the
\* geocoder finds and one it does not
DistScenarios ==
    {Scenario(<<>>, <<>>, <<>>, GeoFailure("Empty")),
     Scenario(TzPlus0530, <<>>, <<>>, GeoFailure("Empty")),
     Scenario(<<"Asia/Tokyo">>, <<>>, <<>>, GeoFailure("Empty")),
     Scenario(<<>>, <<>>, <<"Tokyo">>, TokyoMatch),
     Scenario(<<>>, <<>>, <<"Gotham">>, GeoFailure("Empty"))}

NextDist ==
    \/ Idle /\ \E from_date \in DistDates, to_date \in DistDates, unit \in DistUnits,
                  s \in DistScenarios, ntp \in NtpResponses :
                 CalculateTimeDistance(from_date, to_date, unit, s.tz, s.country, s.city, ntp)
    \/ \E clock \in LocalClocks : NtpAnswers(clock)
    \/ pc = "geo_send" /\ \E s \in DistScenarios : ScenarioOfCall(s) /\ GeoSend(s.resp)
    \/ GeoAnswers
    \/ ComposeDistance
    \/ TfCheck(0)
    \/ TfConstruct(0)
    \/ TfAssign(0)
    \/ TfReturn(0)
    \/ Return

SpecDist == Init /\ [][NextDist]_vars

(***************************************************************************)
(* Properties of the time distance report (SpecDist)                       *)
(***************************************************************************)
\* The instant an endpoint of the call in progress resolves to
EndpointInstant(s) == parse_endpoint(s, time.utc_time, distance_zone(loc)).ts

SameEndpoints == EndpointInstant(call.from_date) = EndpointInstant(call.to_date)

\* C21: whenever the two endpoints of a calculate_time_distance call resolve
\* to the same instant, the call returns the usage-error text and no
\* distance report: also for the same date written twice and for the
\* default call, where both endpoints are "now".
C21_SameEndpointsError ==
    (pc = "done" /\ call.tool = "calculate_time_distance" /\ SameEndpoints)
        => /\ result.exc = ""
           /\ result.text = UsageError
           /\ LinesWith(result.text, "Distance: ") = <<>>

\* from_date = to_date = "2025-01-01" was answered with the usage error
C21_Witness ==
    /\ pc = "done"
    /\ call.tool = "calculate_time_distance"
    /\ call.from_date = IsoDate(2025, 1, 1)
    /\ call.to_date = IsoDate(2025, 1, 1)
    /\ result.text = UsageError

\* The default call, both endpoints "now", was answered with the usage error
C21_WitnessNow ==
    /\ pc = "done"
    /\ call.tool = "calculate_time_distance"
    /\ call.from_date = <<"now">>
    /\ call.to_date = <<"now">>
    /\ call.unit = <<"auto">>
    /\ call.tz = <<>>
    /\ result.text = UsageError

\* Two different strings for one instant were answered with the usage error
C21_WitnessSameInstant ==
    /\ pc = "done"
    /\ call.tool = "calculate_time_distance"
    /\ call.from_date # call.to_date
    /\ lower(strip(call.from_date)) # <<"now">>
    /\ SameEndpoints
    /\ result.text = UsageError

\* A distance of fourteen days was reported
C21_WitnessReport ==
    /\ pc = "done"
    /\ call.tool = "calculate_time_distance"
    /\ <<"Distance: ", "1", "4", " days">> \in {result.text[i] : i \in 1..Len(result.text)}

(***************************************************************************)
(* Properties of the timezone index in a sequence of calls (SpecLoc)       *)
(***************************************************************************)
\* The call in progress looked a zone up: it called coords_to_timezone,
\* which got its index from _get_timezone_finder
UsedIndex == pc = "done" /\ loc.tf_calls > 0

\* A step leaves an index that exists alone: not reset, not replaced, no
\* second constructor run
IndexKept == _timezone_finder # 0 => (_timezone_finder' = _timezone_finder /\ constructed' = constructed)

\* C22: in a sequence of calls served one after the other the TimezoneFinder
\* constructor runs at most once; the global is None or that one instance,
\* and between two calls it is the instance exactly when the constructor
\* has run; a call that looked a zone up was handed that instance and
\* leaves it in place, and once _timezone_finder is set no step resets or
\* replaces it, so every later lookup uses the same instance.
C22_BuiltOnceAndKept ==
    /\ [](/\ constructed <= 1
          /\ _timezone_finder \in {0, constructed}
          /\ pc \in {"idle", "done"} => _timezone_finder = constructed
          /\ UsedIndex => (_timezone_finder = 1 /\ threads[0] = [pc |-> "done", tf |-> 1]))
    /\ [][IndexKept]_vars

\* A call has looked a zone up with the one index, which is in place; the
\* state is the same after the first such call and after every later one
C22_Witness ==
    /\ UsedIndex
    /\ loc.tz # TzNone
    /\ threads[0].tf = 1
    /\ _timezone_finder = 1
    /\ constructed = 1

\* A later lookup is under way: _get_timezone_finder found the index in
\* place and is about to return it
C22_WitnessLater == pc = "index" /\ threads[0].pc = "return" /\ threads[0].tf = 0 /\ _timezone_finder = 1

(***************************************************************************)
(* Properties of geocode_location (SpecLoc)                                *)
(***************************************************************************)
\* geocode_location was called directly and returned a tuple
Geocoded == pc = "done" /\ call.tool = "geocode_location" /\ result.exc = "" /\ result.text # <<>>

\* The positions of the separator ", " in a name
Separators(name) == {i \in 1..Len(name) : name[i] = ", "}

First(S) == CHOOSE i \in S : \A j \in S : i <= j
Last(S) == CHOOSE i \in S : \A j \in S : j <= i

\* "<first segment>, <last segment>" for a name of more than two segments,
\* the name itself for one of one or two
FirstAndLast(name) ==
    IF Cardinality(Separators(name)) >= 2
    THEN SubSeq(name, 1, First(Separators(name)) - 1) \o <<", ">>
           \o SubSeq(name, Last(Separators(name)) + 1, Len(name))
    ELSE name

\* C23 as stated: the display name of a match is compressed to the first and
\* the last segment when it has more than two, returned unchanged when it has
\* one or two, and a match without display name returns the query string
\* itself.
C23_QueryItself ==
    Geocoded =>
        IF call.resp.named THEN result.text[2] = FirstAndLast(call.resp.display)
        ELSE result.text[2] = call.city

\* C23, amended: the display name of a match is compressed to the first and
\* the last segment when it has more than two, returned unchanged when it has
\* one or two; a match without display name has the query string take its
\* place, under the same rule.
C23_Compression ==
    Geocoded =>
        result.text[2] = FirstAndLast(IF call.resp.named THEN call.resp.display ELSE call.city)

\* A display name of four segments came back as its first and last segment
C23_Witness ==
    /\ Geocoded
    /\ call.resp.named
    /\ Cardinality(Separators(call.resp.display)) = 3
    /\ result.text[2] = <<"Warsaw", ", ", "Poland">>

\* A match without display name came back under the query it was asked with
C23_WitnessQuery ==
    /\ Geocoded
    /\ ~call.resp.named
    /\ result.text[2] = call.city
    /\ call.city = <<"Paris", ", ", "France">>

(***************************************************************************)
(* SpecLive: a call of get_current_time or get_utc, one blocking request   *)
(* at a time.  The call blocks in ntp_client.request and, when it has to   *)
(* geocode, in requests.get; the collaborator it waits for either answers  *)
(* or stays silent, and a silent one is what the request's timeout ends.   *)
(***************************************************************************)
\* What the NTP server and the geocoder can do with a request
LiveNtpOutcomes ==
    {NtpResponse("ok", tx) : tx \in ServerTimes}
      \cup {NtpResponse(k, 0) : k \in {"NTPException", "OSError", "silent"}}
LiveGeoOutcomes ==
    {WarsawMatch, TokyoMatch, GeoFailure("Empty"), GeoFailure("InvalidJSON"),
     GeoFailure("BadShape"), GeoFailure("Silent")}

\* No location, a tz that parses, one that does not, one that raises; a
\* city, a country, both
LiveLocations ==
    {Scenario(<<>>, <<>>, <<>>, GeoFailure("")),
     Scenario(TzPlus0530, <<>>, <<>>, GeoFailure("")),
     Scenario(<<"InvalidTZ">>, <<>>, <<>>, GeoFailure("")),
     Scenario(<<"/etc/localtime">>, <<>>, <<"Warsaw">>, GeoFailure("")),
     Scenario(<<>>, <<>>, <<"Warsaw">>, GeoFailure("")),
     Scenario(<<>>, <<"Poland">>, <<>>, GeoFailure("")),
     Scenario(<<" ">>, <<"Poland">>, <<" ", "Gotham", " ">>, GeoFailure(""))}

NextLive ==
    \/ Idle /\ \E calendar \in LocCalendars, s \in LiveLocations, ntp \in LiveNtpOutcomes :
                 GetCurrentTime(calendar, s.tz, s.country, s.city, ntp)
    \/ Idle /\ \E server \in Servers, ntp \in LiveNtpOutcomes : GetUtc(server, ntp)
    \/ \E clock \in LocalClocks : NtpAnswers(clock)
    \/ \E clock \in LocalClocks : NtpTimesOut(clock)
    \/ \E resp \in LiveGeoOutcomes : GeoSend(resp)
    \/ GeoAnswers
    \/ GeoTimesOut
    \/ ComposeUtc
    \/ ComposeReport
    \/ TfCheck(0)
    \/ TfConstruct(0)
    \/ TfAssign(0)
    \/ TfReturn(0)
    \/ Return

\* A blocking request ends, with an answer or with its timeout; between
\* the requests the call's thread runs on, through _get_timezone_finder
\* too, to the call's end.  Nothing obliges a client to
\* call.
SpecLive ==
    /\ Init
    /\ [][NextLive]_vars
    /\ WF_vars(\E clock \in LocalClocks : NtpAnswers(clock) \/ NtpTimesOut(clock))
    /\ WF_vars(GeoAnswers \/ GeoTimesOut)
    /\ WF_vars(\E resp \in LiveGeoOutcomes : GeoSend(resp))
    /\ WF_vars(ComposeUtc \/ ComposeReport)
    /\ WF_vars(TfCheck(0) \/ TfConstruct(0) \/ TfAssign(0) \/ TfReturn(0))
    /\ WF_vars(Return)

(***************************************************************************)
(* SpecConc: tool calls that overlap.  Thread 0 serves calls that look a   *)
(* zone up while threads 1..MaxThreads, which serve other such calls, run  *)
(* _get_timezone_finder at any time: while thread 0 waits for the NTP      *)
(* server or the geocoder, or between its own statements of the function.  *)
(***************************************************************************)
NextConc ==
    \/ Idle /\ \E tz \in {<<>>, TzPlus0530} : ResolveLocation(tz, <<>>, <<"Warsaw">>)
    \/ ResolveLocationEnds
    \/ Idle /\ \E calendar \in {<<>>, <<"unix">>}, ntp \in NtpResponses :
                 GetCurrentTime(calendar, <<>>, <<>>, <<"Warsaw">>, ntp)
    \/ \E clock \in LocalClocks : NtpAnswers(clock)
    \/ \E resp \in {WarsawMatch, GeoFailure("Empty")} : GeoSend(resp)
    \/ GeoAnswers
    \/ ComposeReport
    \/ \E t \in Threads : TfCheck(t)
    \/ \E t \in Threads : TfConstruct(t)
    \/ \E t \in Threads : TfAssign(t)
    \/ \E t \in Threads : TfReturn(t)
    \/ Return

SpecConc == Init /\ [][NextConc]_vars

(***************************************************************************)
(* Properties of termination (SpecLive)                                    *)
(***************************************************************************)
\* The NTP request of the finished call timed out and the local clock was
\* served in its place
NtpFellBack == time.utc_time = DateTime(call.clock, TzUTC) /\ ~time.is_ntp /\ time.queries = 1

\* The geocoding request of the finished call timed out and the call
\* returned the report without location, with the warning
GeoFellBack ==
    /\ result.exc = ""
    /\ loc.tz = TzNone
    /\ loc.warning # <<>>
    /\ \E i \in 1..Len(result.text) : result.text[i] = <<"Note: ">> \o loc.warning

\* C24: every call of get_current_time and of get_utc comes to its end, when
\* each request to the NTP server and to the geocoder ends with an answer or
\* with its timeout; a call that saw a request time out has the fallback
\* value in its place: the local clock for the NTP time, no location and a
\* warning for the geocoder's match.
C24_EventuallyReturns ==
    /\ (pc # "idle") ~> (pc = "idle")
    /\ [](pc = "done" =>
            /\ call.ntp.kind = "timeout" => NtpFellBack
            /\ call.resp.kind = "RequestException" => GeoFellBack)

\* Both requests of a get_current_time call timed out and the call has its
\* report
C24_Witness ==
    /\ pc = "done"
    /\ call.tool = "get_current_time"
    /\ call.ntp.kind = "timeout"
    /\ call.resp.kind = "RequestException"
    /\ NtpFellBack
    /\ GeoFellBack

(***************************************************************************)
(* Properties of the Gregorian date line (Spec)                            *)
(***************************************************************************)
\* The names the calendar argument lists: its parts that are not empty
\* after trimming
NamesListed(calendar) == SelectSeq(NormalNames(calendar), LAMBDA n : n # <<>>)

\* The lines of a sequence, as a set
LineSet(lines) == {lines[i] : i \in 1..Len(lines)}

\* C25: the text get_current_time returns has the Gregorian date line, once,
\* exactly when the calendar argument is non-empty after trimming: also for
\* an argument of separators only or of unknown names only, and then no
\* section follows it.  The sections are those of the known names listed and
\* the warnings those of the unknown names listed: an empty part between
\* commas has neither.
C25_GregorianLine ==
    Reported
    => LET listed == NamesListed(call.calendar)
           known == SelectSeq(listed, is_known_calendar)
           unknown == SelectSeq(listed, LAMBDA n : ~is_known_calendar(n))
           dates == LinesWith(result.text, "Date: ")
           titles == SelectSeq(result.text, LAMBDA l : StartsWith(l, SectionTitles))
           notes == LinesWith(result.text, "(Note: Unknown calendar format ignored: ")
       IN  /\ Len(dates) = (IF NonBlank(call.calendar) THEN 1 ELSE 0)
           /\ LineSet(dates) \subseteq {gregorian_line(DisplayInstant)}
           /\ known = <<>> => titles = <<>>
           /\ LineSet(titles) = {Head(format_calendar(known[i], DisplayInstant)) : i \in 1..Len(known)}
           /\ LineSet(notes) = {unknown_calendar_warning(unknown[i]) : i \in 1..Len(unknown)}
           /\ ~NonBlank(call.calendar) => (titles = <<>> /\ notes = <<>>)

\* A calendar argument of one comma: the date line, no section, no warning
C25_Witness ==
    /\ Reported
    /\ call.calendar = <<",">>
    /\ Len(LinesWith(result.text, "Date: ")) = 1
    /\ LinesWith(result.text, "(Note: Unknown calendar format ignored: ") = <<>>
    /\ SelectSeq(result.text, LAMBDA l : StartsWith(l, SectionTitles)) = <<>>

\* An empty part between two names: one section, one warning
C25_WitnessEmptyPart ==
    /\ Reported
    /\ call.calendar = <<"unix", ",", ",">>
    /\ Len(SelectSeq(result.text, LAMBDA l : StartsWith(l, SectionTitles))) = 1
    /\ LinesWith(result.text, "(Note: Unknown calendar format ignored: ") = <<>>

(***************************************************************************)
(* The paths that build the timezone index (SpecLoc)                       *)
(***************************************************************************)
\* A step of thread 0 in a call of resolve_location, direct or through
\* get_current_time: the step that enters the call or one inside it
ResolverCall ==
    /\ pc' # "idle"
    /\ call'.tool \in {"resolve_location", "get_current_time"}
    /\ \A t \in Threads \ {0} : threads'[t] = threads[t]

\* The call in progress has a geocoding request that returned coordinates
GotCoordinates ==
    /\ ~NonBlank(call'.tz)
    /\ NonBlank(call'.city) \/ NonBlank(call'.country)
    /\ call'.resp.kind = "Match"

\* The step does not take the call into _get_timezone_finder and leaves the
\* global and the constructor count as they were
IndexUntouched == pc' \notin {"index", "lookup"} /\ UNCHANGED <<_timezone_finder, constructed>>

\* C26: a call whose tz is non-empty, a call with no location parameter and
\* a city or country call whose geocoding finds nothing (no match, or a
\* request that fails) never enter _get_timezone_finder, from their first
\* step to their end: they leave _timezone_finder as it was and run no
\* constructor; a step runs the constructor or stores into _timezone_finder
\* only as a statement of _get_timezone_finder, which the call thread 0
\* serves enters only when its geocoding request has returned coordinates,
\* and what it stores is an index, never None.
C26_IndexOnlyWhenNeeded ==
    [][/\ (ResolverCall /\ NonBlank(call'.tz)) => IndexUntouched
       /\ (ResolverCall /\ ~NonBlank(call'.tz) /\ ~NonBlank(call'.city) /\ ~NonBlank(call'.country))
            => IndexUntouched
       /\ (ResolverCall /\ call'.resp.kind # "Match") => IndexUntouched
       /\ (_timezone_finder' # _timezone_finder \/ constructed' # constructed)
            => /\ \E t \in Threads :
                    /\ threads[t].pc \in {"construct", "assign"}
                    /\ threads'[t] # threads[t]
                    /\ t = 0 => (pc = "index" /\ pc' = "index" /\ GotCoordinates)
               /\ _timezone_finder' # _timezone_finder => _timezone_finder' # 0
      ]_vars

\* A city the geocoder does not find: the call has its warning and there is
\* still no index
C26_Witness ==
    /\ pc = "done"
    /\ call.tool = "resolve_location"
    /\ NonBlank(call.city)
    /\ call.resp.kind = "Empty"
    /\ loc.queries # <<>>
    /\ loc.warning # <<>>
    /\ _timezone_finder = 0
    /\ constructed = 0

\* Coordinates came back and the index was built for them
C26_WitnessBuilt ==
    /\ pc = "done"
    /\ call.tool = "resolve_location"
    /\ call.resp.kind = "Match"
    /\ loc.tf_calls = 1
    /\ _timezone_finder = 1

(***************************************************************************)
(* The web variant against the core (Spec)                                 *)
(***************************************************************************)
\* What the NTP server and the local clock must have given for the Time
\* Source result of the call just answered
SourceNtp == IF time.is_ntp THEN NtpResponse("ok", time.utc_time.ts) ELSE NtpResponse("OSError", 0)
SourceClock == time.utc_time.ts

\* current_time_result(calendar, "", "", "") for the Time Source result of
\* the call just answered
CoreText(calendar) ==
    report(calendar, has_location_of(<<>>, <<>>, <<>>), time,
           resolve_location(<<>>, <<>>, <<>>, GeoFailure(""))).text

\* C27: for one Time Source result and one calendar string, the web
\* variant's get_current_time(calendar) and the core's
\* current_time_result(calendar) with the three location parameters empty
\* return the same text, line for line: header, sections, warning lines,
\* blank lines and NTP fallback notice.
C27_WebEqualsCore ==
    /\ (pc = "done" /\ call.tool = "web_get_current_time")
         => result.text = CoreText(call.calendar)
    /\ (Reported /\ call.tz = <<>> /\ call.country = <<>> /\ call.city = <<>>)
         => result.text = web_get_current_time(call.calendar, SourceNtp, SourceClock).text

\* The web variant answered, on the local clock, a request for an unknown
\* and a known calendar; the core's text for it is the same
C27_Witness ==
    /\ pc = "done"
    /\ call.tool = "web_get_current_time"
    /\ call.calendar = <<"bogus", ",", "unix">>
    /\ ~time.is_ntp
    /\ Len(result.text) = 9
    /\ result.text[7] = EmptyLine
    /\ result.text[8] = unknown_calendar_warning(<<"bogus">>)
    /\ result.text[9] = NtpFallbackNotice
    /\ result.text = CoreText(call.calendar)

==========================================================================
